---- MODULE Spec2Model ----
(***************************************************************************)
(* Room / session authority of termo-multiplayer: RoomService (room        *)
(* registry), GameService (guess evaluation, ranking), the socket.io       *)
(* handlers of the server entry point and the WordService dictionary.      *)
(*                                                                         *)
(* Optional values (TypeScript `x?: T`) are sequences: <<>> is undefined,  *)
(* <<v>> is the value v.  Player objects live in `heap` and are referred   *)
(* to by object id, because room.players, game.players and suspended       *)
(* handlers share references to them.                                      *)
(***************************************************************************)
EXTENDS Integers, Sequences, FiniteSets, TLC

\* ------------------------------------------------------------------ bounds
MaxSockets == 2    \* socket connections that ever exist
MaxRooms == 1      \* rooms alive at the same time
MaxRoster == 2     \* players in one room (below every capacity used)
MaxTime == 1       \* clock values 0..MaxTime
MaxSubmits == 2    \* submit-guess events received
MaxPending == 1    \* handlers suspended on an await at the same time
MaxRoundSubmits == 7   \* submit-guess events received in SpecRound
MaxBurstPending == 2   \* handlers suspended at the same time in SpecBurst
MaxBurstSubmits == 3   \* submit-guess events received in SpecBurst
MaxEvalLetters == 3    \* letters the words given to validateGuess on its own are made of
MaxRankPlayers == 3    \* players handed to calculateRankings on its own
MaxRankGuesses == 2    \* guesses of such a player
MaxRankTime == 1       \* latest finish time of such a player
MaxJoinRoster == 3     \* roster size up to which join-room events are received in SpecJoin
MaxListRooms == 2      \* live rooms in SpecRooms
MaxIdleTime == 1800001   \* latest time in SpecRooms
MaxRecordTime == 2     \* latest date at which updatePlayerAfterGuess on its own records a guess
MaxLateSockets == 3    \* connections in SpecLate, where a player joins a room whose game has started
MaxLateSubmits == 2    \* submit-guess events received in SpecLate

\* ------------------------------------------------------- program constants
MAX_GUESSES == 6           \* gameService.ts:150, `>= 6`
WORD_LENGTH == 5           \* gameService.ts:27, `i < 5`
DEFAULT_MAX_PLAYERS == 8   \* roomService.ts:12
TIME_LIMIT == 600          \* roomService.ts:13
INACTIVE_TIMEOUT == 1800000   \* roomService.ts:350, `30 * 60 * 1000` ms

None == <<>>
Some(v) == <<v>>
IsSome(o) == o # <<>>
Val(o) == o[1]

Min(S) == CHOOSE x \in S : \A y \in S : x <= y
Range(f) == {f[x] : x \in DOMAIN f}
SeqToSet(s) == {s[i] : i \in 1..Len(s)}

\* Array.prototype.findIndex: the first index whose element satisfies Test, 0 when none
FindIndex(s, Test(_)) ==
  IF \E i \in 1..Len(s) : Test(s[i])
  THEN Min({i \in 1..Len(s) : Test(s[i])})
  ELSE 0

\* Array.prototype.splice(index, 1)
RemoveAt(s, k) == [i \in 1..(Len(s) - 1) |-> IF i < k THEN s[i] ELSE s[i + 1]]

\* ------------------------------------------------------------ WordService
\* Letters are one-character strings; "a~" / "A~" stand for an accented a / A.
Upper(c) ==
  CASE c = "a" -> "A" [] c = "b" -> "B" [] c = "c" -> "C"
    [] c = "d" -> "D" [] c = "e" -> "E" [] c = "f" -> "F" [] c = "g" -> "G"
    [] c = "h" -> "H" [] c = "i" -> "I" [] c = "j" -> "J"
    [] c = "a~" -> "A~"
    [] OTHER -> c

\* String.normalize('NFD') followed by the removal of the combining marks
StripAccent(c) == IF c = "A~" THEN "A" ELSE IF c = "a~" THEN "a" ELSE c

toUpperCase(w) == [i \in 1..Len(w) |-> Upper(w[i])]

normalizeWord(w) == [i \in 1..Len(w) |-> StripAccent(Upper(w[i]))]

\* filtered-portuguese-words.txt after loadWordsFromFile: lower-case 5-letter words
allWords == << <<"a", "b", "c", "a", "b">>, <<"c", "a~", "b", "b", "a">> >>

\* the words usable as targets (the first 2000 of the file)
targetWords == allWords

\* getRandomWord: the possible results of one draw
RandomWords ==
  IF Len(targetWords) = 0 THEN {<<>>}
  ELSE {toUpperCase(targetWords[i]) : i \in 1..Len(targetWords)}

\* isValidGuess: the value the returned promise resolves to
isValidGuess(word) ==
  \E i \in 1..Len(allWords) : normalizeWord(allWords[i]) = normalizeWord(word)

\* ------------------------------------------------------------ GameService
\* s[i] of a JavaScript array: undefined outside the array
At(s, i) == IF i \in 1..Len(s) THEN s[i] ELSE "undefined"

\* the variant of the second pass that leaves the matched letter in the pool
RECURSIVE SecondPassKeepPool(_, _, _, _, _)
SecondPassKeepPool(k, remainingGuessLetters, remainingPositions, pool, res) ==
  IF k > Len(remainingGuessLetters) THEN res
  ELSE
    LET guessLetter == remainingGuessLetters[k]
        position == remainingPositions[k]
        targetIndex == FindIndex(pool, LAMBDA x : x = guessLetter)
    IN  IF targetIndex # 0
        THEN SecondPassKeepPool(k + 1, remainingGuessLetters, remainingPositions, pool,
                                [res EXCEPT ![position].status = "present"])
        ELSE SecondPassKeepPool(k + 1, remainingGuessLetters, remainingPositions, pool, res)

\* the variant of the second pass that takes the remaining positions from the right
RECURSIVE SecondPassFromRight(_, _, _, _, _)
SecondPassFromRight(k, remainingGuessLetters, remainingPositions, pool, res) ==
  IF k > Len(remainingGuessLetters) THEN res
  ELSE
    LET guessLetter == remainingGuessLetters[Len(remainingGuessLetters) + 1 - k]
        position == remainingPositions[Len(remainingGuessLetters) + 1 - k]
        targetIndex == FindIndex(pool, LAMBDA x : x = guessLetter)
    IN  IF targetIndex # 0
        THEN SecondPassFromRight(k + 1, remainingGuessLetters, remainingPositions,
                                 RemoveAt(pool, targetIndex),
                                 [res EXCEPT ![position].status = "present"])
        ELSE SecondPassFromRight(k + 1, remainingGuessLetters, remainingPositions, pool, res)

\* Second pass of validateGuess: k runs over the remaining positions, pool is
\* remainingTargetLetters, res the result array so far.
RECURSIVE SecondPass(_, _, _, _, _)
SecondPass(k, remainingGuessLetters, remainingPositions, pool, res) ==
  IF k > Len(remainingGuessLetters) THEN res
  ELSE
    LET guessLetter == remainingGuessLetters[k]
        position == remainingPositions[k]
        targetIndex == FindIndex(pool, LAMBDA x : x = guessLetter)
    IN  IF targetIndex # 0
        THEN SecondPass(k + 1, remainingGuessLetters, remainingPositions,
                        RemoveAt(pool, targetIndex),
                        [res EXCEPT ![position].status = "present"])
        ELSE SecondPass(k + 1, remainingGuessLetters, remainingPositions, pool, res)

\* validateGuess: `!WordService.isValidGuess(guess)` negates the promise that the
\* async isValidGuess returns, which is always false, so the throw is never taken.
validateGuess(guess, targetWord) ==
  LET normalizedGuess == normalizeWord(guess)
      normalizedTarget == normalizeWord(targetWord)
      Match(i) == At(normalizedGuess, i) = At(normalizedTarget, i)
      remainingPositions ==
        LET RECURSIVE Collect(_)
            Collect(i) ==
              IF i > WORD_LENGTH THEN <<>>
              ELSE IF Match(i) THEN Collect(i + 1)
              ELSE <<i>> \o Collect(i + 1)
        IN  Collect(1)
      remainingTargetLetters ==
        [k \in 1..Len(remainingPositions) |-> At(normalizedTarget, remainingPositions[k])]
      remainingGuessLetters ==
        [k \in 1..Len(remainingPositions) |-> At(normalizedGuess, remainingPositions[k])]
      firstPass ==
        [i \in 1..WORD_LENGTH |->
          [letter |-> At(guess, i),
           status |-> IF Match(i) THEN "correct" ELSE "absent"]]
  IN  SecondPass(1, remainingGuessLetters, remainingPositions,
                 remainingTargetLetters, firstPass)

hasPlayerWon(guessResult) ==
  \A i \in 1..Len(guessResult) : guessResult[i].status = "correct"

createGuess(word, result) == [word |-> toUpperCase(word), result |-> result]

shouldGameEnd(players) ==
  \A i \in 1..Len(players) : players[i].status \in {"won", "lost"}

\* the variant of updatePlayerAfterGuess that sets currentRow to the row of the new guess
updatePlayerAfterGuessRowOfGuess(player, guess, date) ==
  LET guesses == Append(player.guesses, guess)
      updatedPlayer ==
        [player EXCEPT !.guesses = guesses, !.currentRow = Len(player.guesses)]
  IN  IF hasPlayerWon(guess.result)
      THEN [updatedPlayer EXCEPT !.status = "won", !.finishTime = Some(date)]
      ELSE IF Len(guesses) >= MAX_GUESSES
      THEN [updatedPlayer EXCEPT !.status = "lost", !.finishTime = Some(date)]
      ELSE updatedPlayer

\* the variant of updatePlayerAfterGuess that keeps a finishTime the player has already
updatePlayerAfterGuessKeepFinish(player, guess, date) ==
  LET guesses == Append(player.guesses, guess)
      finishTime == IF IsSome(player.finishTime) THEN player.finishTime ELSE Some(date)
      updatedPlayer ==
        [player EXCEPT !.guesses = guesses, !.currentRow = Len(player.guesses) + 1]
  IN  IF hasPlayerWon(guess.result)
      THEN [updatedPlayer EXCEPT !.status = "won", !.finishTime = finishTime]
      ELSE IF Len(guesses) >= MAX_GUESSES
      THEN [updatedPlayer EXCEPT !.status = "lost", !.finishTime = finishTime]
      ELSE updatedPlayer

\* the variant of updatePlayerAfterGuess that counts the guesses before the new one
updatePlayerAfterGuessLateLoss(player, guess, date) ==
  LET guesses == Append(player.guesses, guess)
      updatedPlayer ==
        [player EXCEPT !.guesses = guesses, !.currentRow = Len(player.guesses) + 1]
  IN  IF hasPlayerWon(guess.result)
      THEN [updatedPlayer EXCEPT !.status = "won", !.finishTime = Some(date)]
      ELSE IF Len(player.guesses) >= MAX_GUESSES
      THEN [updatedPlayer EXCEPT !.status = "lost", !.finishTime = Some(date)]
      ELSE updatedPlayer

updatePlayerAfterGuess(player, guess, date) ==
  LET guesses == Append(player.guesses, guess)
      updatedPlayer ==
        [player EXCEPT !.guesses = guesses, !.currentRow = Len(player.guesses) + 1]
  IN  IF hasPlayerWon(guess.result)
      THEN [updatedPlayer EXCEPT !.status = "won", !.finishTime = Some(date)]
      ELSE IF Len(guesses) >= MAX_GUESSES
      THEN [updatedPlayer EXCEPT !.status = "lost", !.finishTime = Some(date)]
      ELSE updatedPlayer

\* JavaScript truthiness of an optional number: undefined and 0 are falsy
Truthy(t) == IsSome(t) /\ Val(t) # 0

\* the comparator handed to rankings.sort
CompareRankings(a, b) ==
  IF a.status = "won" /\ b.status = "lost" THEN -1
  ELSE IF a.status = "lost" /\ b.status = "won" THEN 1
  ELSE IF a.guessesUsed # b.guessesUsed THEN a.guessesUsed - b.guessesUsed
  ELSE IF Truthy(a.timeTaken) /\ Truthy(b.timeTaken) THEN Val(a.timeTaken) - Val(b.timeTaken)
  ELSE IF Truthy(a.timeTaken) /\ ~Truthy(b.timeTaken) THEN -1
  ELSE IF ~Truthy(a.timeTaken) /\ Truthy(b.timeTaken) THEN 1
  ELSE 0

\* Array.prototype.sort is stable: an element goes after the elements it does not precede
RECURSIVE InsertSorted(_, _)
InsertSorted(sorted, x) ==
  IF Len(sorted) = 0 THEN <<x>>
  ELSE IF CompareRankings(x, sorted[Len(sorted)]) < 0
  THEN Append(InsertSorted(SubSeq(sorted, 1, Len(sorted) - 1), x), sorted[Len(sorted)])
  ELSE Append(sorted, x)

RECURSIVE SortRankings(_)
SortRankings(s) ==
  IF Len(s) = 0 THEN <<>>
  ELSE InsertSorted(SortRankings(SubSeq(s, 1, Len(s) - 1)), s[Len(s)])

\* calculateRankings without its last loop: the entries keep the rank 0 they are built with
calculateRankingsUnranked(players, gameStartTime) ==
  SortRankings(
    [i \in 1..Len(players) |->
      [playerId |-> players[i].id,
       playerName |-> players[i].name,
       guessesUsed |-> Len(players[i].guesses),
       timeTaken |-> IF IsSome(players[i].finishTime)
                     THEN Some(Val(players[i].finishTime) - gameStartTime)
                     ELSE None,
       status |-> IF players[i].status = "won" THEN "won" ELSE "lost",
       rank |-> 0]])

calculateRankings(players, gameStartTime) ==
  LET rankings ==
        [i \in 1..Len(players) |->
          [playerId |-> players[i].id,
           playerName |-> players[i].name,
           guessesUsed |-> Len(players[i].guesses),
           timeTaken |-> IF IsSome(players[i].finishTime)
                         THEN Some(Val(players[i].finishTime) - gameStartTime)
                         ELSE None,
           status |-> IF players[i].status = "won" THEN "won" ELSE "lost",
           rank |-> 0]]
      sorted == SortRankings(rankings)
  IN  [i \in 1..Len(sorted) |-> [sorted[i] EXCEPT !.rank = i]]

\* ------------------------------------------------------------------ state
VARIABLES
  rooms,             \* RoomService.rooms: room id -> Room
  roomOrder,         \* the keys of RoomService.rooms in the order the Map iterates them
  roomCodes,         \* RoomService.roomCodes: code -> room id
  detached,          \* Room objects deleted from `rooms` that a suspended handler still holds
  heap,              \* Player objects: object id -> Player
  connectedPlayers,  \* socket id -> player id
  closed,            \* sockets whose disconnect handler has run
  pending,           \* handlers suspended on an await
  now,               \* the clock read by `new Date()`
  emitted,           \* the events emitted by the last handler step, in order
  submits,           \* submit-guess events taken so far
  probe              \* the inputs and the result of a service function called on its own

vars == <<rooms, roomOrder, roomCodes, detached, heap, connectedPlayers, closed, pending, now,
          emitted, submits, probe>>

Sockets == 1..MaxSockets
\* the display name the client on socket s uses
NameOf(s) == <<"ana", "bia", "caio", "davi", "eva">>[s]
CodeList == <<"K1", "K2", "K3", "K4">>
\* the codes the draws of generateRoomCode end with where at most MaxRooms rooms are live
Codes == {CodeList[i] : i \in 1..MaxRooms}
\* room codes as a client may type them; joinRoom upper-cases the input
CodeInputs == Codes \cup {"k1"}
UpperCode(c) == IF c = "k1" THEN "K1" ELSE c
\* the words a client submits: both targets as typed in lower case without accents
GuessInputs == {<<"a", "b", "c", "a", "b">>, <<"c", "a", "b", "b", "a">>}
\* a 5-letter word that is not in the word file
InvalidGuessInputs == {<<"b", "b", "b", "b", "b">>}
\* an id no room / player has
UnknownId == 0

Drop(f, k) == [x \in DOMAIN f \ {k} |-> f[x]]
Put(f, k, v) == (k :> v) @@ f

\* the mutable memory the services work on
Mem == [rooms |-> rooms, roomCodes |-> roomCodes, detached |-> detached, heap |-> heap]

AllRooms(st) == {st.rooms[r] : r \in DOMAIN st.rooms} \cup {st.detached[r] : r \in DOMAIN st.detached}
GamePlayers(room) == IF IsSome(room.game) THEN SeqToSet(Val(room.game).players) ELSE {}

\* uuidv4(): an id in use nowhere
UsedRoomIds(st) ==
  DOMAIN st.rooms \cup DOMAIN st.detached \cup {c.roomId : c \in pending}
FreshRoomId(st) == Min((1..(Cardinality(UsedRoomIds(st)) + 1)) \ UsedRoomIds(st))
UsedPlayerIds(st) ==
  {st.heap[o].id : o \in DOMAIN st.heap} \cup Range(connectedPlayers)
    \cup {c.playerId : c \in {d \in pending : d.kind = "guess"}}
FreshPlayerId(st) ==
  Min((1..(Cardinality(UsedPlayerIds(st)) + 1)) \ UsedPlayerIds(st))
FreshGameId(st) ==
  LET used == {Val(room.game).id : room \in {q \in AllRooms(st) : IsSome(q.game)}}
  IN  Min((1..(Cardinality(used) + 1)) \ used)
\* the k-th unused object id
FreshOid(h, k) ==
  LET free == (1..(Cardinality(DOMAIN h) + k)) \ DOMAIN h
      RECURSIVE Nth(_, _)
      Nth(S, n) == IF n = 1 THEN Min(S) ELSE Nth(S \ {Min(S)}, n - 1)
  IN  Nth(free, k)

\* the Room object `roomId` names for a handler that fetched it before it was deleted
RoomRef(st, roomId) ==
  IF roomId \in DOMAIN st.rooms THEN st.rooms[roomId] ELSE st.detached[roomId]
SetRoom(st, roomId, room) ==
  IF roomId \in DOMAIN st.rooms
  THEN [st EXCEPT !.rooms[roomId] = room]
  ELSE [st EXCEPT !.detached[roomId] = room]

PlayerIndex(st, oids, playerId) == FindIndex(oids, LAMBDA o : st.heap[o].id = playerId)
PlayersOf(st, oids) == [i \in 1..Len(oids) |-> st.heap[oids[i]]]

\* ------------------------------------------------------------ RoomService
\* the variant of generateRoomCode without the `while (this.roomCodes.has(code))` retry
generateRoomCodeOnce(st) == SeqToSet(CodeList)

\* generateRoomCode: the codes a draw can end with, those of no live room
generateRoomCode(st) == SeqToSet(CodeList) \ DOMAIN st.roomCodes

createRoom(st, playerName, password, maxPlayers, socketId, roomCode, date) ==
  LET roomId == FreshRoomId(st)
      oid == FreshOid(st.heap, 1)
      leader == [id |-> FreshPlayerId(st), name |-> playerName, socketId |-> socketId,
                 isLeader |-> TRUE, guesses |-> <<>>, status |-> "waiting",
                 finishTime |-> None, currentRow |-> 0]
      room == [id |-> roomId, code |-> roomCode, players |-> <<oid>>, game |-> None,
               status |-> "waiting", createdAt |-> date, maxPlayers |-> maxPlayers,
               password |-> password, isPrivate |-> IsSome(password)]
  IN  [st |-> [st EXCEPT !.heap = Put(st.heap, oid, leader),
                         !.rooms = Put(st.rooms, roomId, room),
                         !.roomCodes = Put(st.roomCodes, roomCode, roomId)],
       room |-> roomId, player |-> leader]

\* the variant of joinRoom without the `room.players.length >= room.maxPlayers` test
joinRoomOverCapacity(st, roomCode, playerName, password, socketId) ==
  LET code == UpperCode(roomCode)
      Fail(e) == [st |-> st, error |-> Some(e), room |-> UnknownId, player |-> None]
  IN  IF code \notin DOMAIN st.roomCodes THEN Fail("null")
      ELSE IF st.roomCodes[code] \notin DOMAIN st.rooms THEN Fail("null")
      ELSE
        LET roomId == st.roomCodes[code]
            room == st.rooms[roomId]
        IN  IF room.isPrivate /\ ~IsSome(password)
            THEN Fail("Esta sala e privada. Digite a senha.")
            ELSE IF room.isPrivate /\ password # room.password
            THEN Fail("Senha incorreta")
            ELSE IF \E i \in 1..Len(room.players) : st.heap[room.players[i]].name = playerName
            THEN Fail("Nome ja esta em uso nesta sala")
            ELSE
              LET oid == FreshOid(st.heap, 1)
                  player == [id |-> FreshPlayerId(st), name |-> playerName,
                             socketId |-> socketId, isLeader |-> FALSE, guesses |-> <<>>,
                             status |-> "waiting", finishTime |-> None, currentRow |-> 0]
              IN  [st |-> [st EXCEPT !.heap = Put(st.heap, oid, player),
                                     !.rooms[roomId].players = Append(room.players, oid)],
                   error |-> None, room |-> roomId, player |-> Some(player)]

\* the variant of joinRoom without the `room.players.find(p => p.name === ...)` test
joinRoomAnyName(st, roomCode, playerName, password, socketId) ==
  LET code == UpperCode(roomCode)
      Fail(e) == [st |-> st, error |-> Some(e), room |-> UnknownId, player |-> None]
  IN  IF code \notin DOMAIN st.roomCodes THEN Fail("null")
      ELSE IF st.roomCodes[code] \notin DOMAIN st.rooms THEN Fail("null")
      ELSE
        LET roomId == st.roomCodes[code]
            room == st.rooms[roomId]
        IN  IF room.isPrivate /\ ~IsSome(password)
            THEN Fail("Esta sala e privada. Digite a senha.")
            ELSE IF room.isPrivate /\ password # room.password
            THEN Fail("Senha incorreta")
            ELSE IF Len(room.players) >= room.maxPlayers
            THEN Fail("Sala cheia")
            ELSE
              LET oid == FreshOid(st.heap, 1)
                  player == [id |-> FreshPlayerId(st), name |-> playerName,
                             socketId |-> socketId, isLeader |-> FALSE, guesses |-> <<>>,
                             status |-> "waiting", finishTime |-> None, currentRow |-> 0]
              IN  [st |-> [st EXCEPT !.heap = Put(st.heap, oid, player),
                                     !.rooms[roomId].players = Append(room.players, oid)],
                   error |-> None, room |-> roomId, player |-> Some(player)]

\* joinRoom: error is the message thrown, "null" the null return, None a success
joinRoom(st, roomCode, playerName, password, socketId) ==
  LET code == UpperCode(roomCode)
      Fail(e) == [st |-> st, error |-> Some(e), room |-> UnknownId, player |-> None]
  IN  IF code \notin DOMAIN st.roomCodes THEN Fail("null")
      ELSE IF st.roomCodes[code] \notin DOMAIN st.rooms THEN Fail("null")
      ELSE
        LET roomId == st.roomCodes[code]
            room == st.rooms[roomId]
        IN  IF room.isPrivate /\ ~IsSome(password)
            THEN Fail("Esta sala e privada. Digite a senha.")
            ELSE IF room.isPrivate /\ password # room.password
            THEN Fail("Senha incorreta")
            ELSE IF Len(room.players) >= room.maxPlayers
            THEN Fail("Sala cheia")
            ELSE IF \E i \in 1..Len(room.players) : st.heap[room.players[i]].name = playerName
            THEN Fail("Nome ja esta em uso nesta sala")
            ELSE
              LET oid == FreshOid(st.heap, 1)
                  player == [id |-> FreshPlayerId(st), name |-> playerName,
                             socketId |-> socketId, isLeader |-> FALSE, guesses |-> <<>>,
                             status |-> "waiting", finishTime |-> None, currentRow |-> 0]
              IN  [st |-> [st EXCEPT !.heap = Put(st.heap, oid, player),
                                     !.rooms[roomId].players = Append(room.players, oid)],
                   error |-> None, room |-> roomId, player |-> Some(player)]

\* deleteRoom: the Room object leaves both maps; it stays in `detached` for the
\* handlers that hold a reference to it
deleteRoom(st, roomId) ==
  IF roomId \notin DOMAIN st.rooms THEN st
  ELSE
    LET room == st.rooms[roomId]
    IN  [st EXCEPT !.rooms = Drop(st.rooms, roomId),
                   !.roomCodes = Drop(st.roomCodes, room.code),
                   !.detached = Put(st.detached, roomId, room)]

\* assignNewLeader: the player that joined first becomes the leader (called from nowhere)
assignNewLeader(st, roomId) ==
  LET room == RoomRef(st, roomId)
  IN  IF Len(room.players) = 0 THEN st
      ELSE [st EXCEPT !.heap =
              [o \in DOMAIN st.heap |->
                IF o \in SeqToSet(room.players)
                THEN [st.heap[o] EXCEPT !.isLeader = (o = room.players[1])]
                ELSE st.heap[o]]]

\* the variant of removePlayer that hands the room over instead of destroying it
removePlayerSuccession(st, roomId, playerId) ==
  IF roomId \notin DOMAIN st.rooms
  THEN [st |-> st, room |-> None, destroyed |-> FALSE, reason |-> None]
  ELSE
    LET room == st.rooms[roomId]
        playerIndex == PlayerIndex(st, room.players, playerId)
    IN  IF playerIndex = 0
        THEN [st |-> st, room |-> Some(roomId), destroyed |-> FALSE, reason |-> None]
        ELSE
          LET removedPlayer == st.heap[room.players[playerIndex]]
              st1 == [st EXCEPT !.rooms[roomId].players = RemoveAt(room.players, playerIndex)]
          IN  IF Len(st1.rooms[roomId].players) = 0
              THEN [st |-> deleteRoom(st1, roomId), room |-> None, destroyed |-> TRUE,
                    reason |-> Some("empty")]
              ELSE IF removedPlayer.isLeader
              THEN [st |-> assignNewLeader(st1, roomId), room |-> Some(roomId),
                    destroyed |-> FALSE, reason |-> None]
              ELSE [st |-> st1, room |-> Some(roomId), destroyed |-> FALSE, reason |-> None]

\* the variant of removePlayer that takes the player out and never deletes the room
removePlayerOnly(st, roomId, playerId) ==
  IF roomId \notin DOMAIN st.rooms
  THEN [st |-> st, room |-> None, destroyed |-> FALSE, reason |-> None]
  ELSE
    LET room == st.rooms[roomId]
        playerIndex == PlayerIndex(st, room.players, playerId)
    IN  IF playerIndex = 0
        THEN [st |-> st, room |-> Some(roomId), destroyed |-> FALSE, reason |-> None]
        ELSE [st |-> [st EXCEPT !.rooms[roomId].players = RemoveAt(room.players, playerIndex)],
              room |-> Some(roomId), destroyed |-> FALSE, reason |-> None]

\* the variant of removePlayer that forgets the leader rule: the room stays as it is
removePlayerKeepRoom(st, roomId, playerId) ==
  IF roomId \notin DOMAIN st.rooms
  THEN [st |-> st, room |-> None, destroyed |-> FALSE, reason |-> None]
  ELSE
    LET room == st.rooms[roomId]
        playerIndex == PlayerIndex(st, room.players, playerId)
    IN  IF playerIndex = 0
        THEN [st |-> st, room |-> Some(roomId), destroyed |-> FALSE, reason |-> None]
        ELSE
          LET st1 == [st EXCEPT !.rooms[roomId].players = RemoveAt(room.players, playerIndex)]
          IN  IF Len(st1.rooms[roomId].players) = 0
              THEN [st |-> deleteRoom(st1, roomId), room |-> None, destroyed |-> TRUE,
                    reason |-> Some("empty")]
              ELSE [st |-> st1, room |-> Some(roomId), destroyed |-> FALSE, reason |-> None]

\* the variant of removePlayer without the `room.players.length === 0` test
removePlayerLeaderOnly(st, roomId, playerId) ==
  IF roomId \notin DOMAIN st.rooms
  THEN [st |-> st, room |-> None, destroyed |-> FALSE, reason |-> None]
  ELSE
    LET room == st.rooms[roomId]
        playerIndex == PlayerIndex(st, room.players, playerId)
    IN  IF playerIndex = 0
        THEN [st |-> st, room |-> Some(roomId), destroyed |-> FALSE, reason |-> None]
        ELSE
          LET removedPlayer == st.heap[room.players[playerIndex]]
              st1 == [st EXCEPT !.rooms[roomId].players = RemoveAt(room.players, playerIndex)]
          IN  IF removedPlayer.isLeader
              THEN [st |-> deleteRoom(st1, roomId), room |-> None, destroyed |-> TRUE,
                    reason |-> Some("leader_left")]
              ELSE [st |-> st1, room |-> Some(roomId), destroyed |-> FALSE, reason |-> None]

removePlayer(st, roomId, playerId) ==
  IF roomId \notin DOMAIN st.rooms
  THEN [st |-> st, room |-> None, destroyed |-> FALSE, reason |-> None]
  ELSE
    LET room == st.rooms[roomId]
        playerIndex == PlayerIndex(st, room.players, playerId)
    IN  IF playerIndex = 0
        THEN [st |-> st, room |-> Some(roomId), destroyed |-> FALSE, reason |-> None]
        ELSE
          LET removedPlayer == st.heap[room.players[playerIndex]]
              st1 == [st EXCEPT !.rooms[roomId].players = RemoveAt(room.players, playerIndex)]
          IN  IF Len(st1.rooms[roomId].players) = 0
              THEN [st |-> deleteRoom(st1, roomId), room |-> None, destroyed |-> TRUE,
                    reason |-> Some("empty")]
              ELSE IF removedPlayer.isLeader
              THEN [st |-> deleteRoom(st1, roomId), room |-> None, destroyed |-> TRUE,
                    reason |-> Some("leader_left")]
              ELSE [st |-> st1, room |-> Some(roomId), destroyed |-> FALSE, reason |-> None]

\* startGame up to its await: "null", the message thrown, or "await"
\* the variant of the checks of startGame without `!leader.isLeader`
startGameCheckAnyPlayer(st, roomId, leaderId) ==
  IF roomId \notin DOMAIN st.rooms THEN "null"
  ELSE
    LET room == st.rooms[roomId]
        i == PlayerIndex(st, room.players, leaderId)
    IN  IF i = 0
        THEN "Apenas o lider pode iniciar o jogo"
        ELSE IF Len(room.players) < 2
        THEN "Sao necessarios pelo menos 2 jogadores"
        ELSE "await"

startGameCheck(st, roomId, leaderId) ==
  IF roomId \notin DOMAIN st.rooms THEN "null"
  ELSE
    LET room == st.rooms[roomId]
        i == PlayerIndex(st, room.players, leaderId)
    IN  IF i = 0 \/ ~st.heap[room.players[i]].isLeader
        THEN "Apenas o lider pode iniciar o jogo"
        ELSE IF Len(room.players) < 2
        THEN "Sao necessarios pelo menos 2 jogadores"
        ELSE "await"

\* the variant of startGame that leaves out the `room.players.forEach` at its end
startGameResumeKeepPlayers(st, roomId, targetWord, date) ==
  LET room == RoomRef(st, roomId)
      game == [id |-> FreshGameId(st), roomId |-> roomId, targetWord |-> targetWord,
               players |-> room.players, status |-> "playing", startTime |-> Some(date),
               rankings |-> <<>>, timeLimit |-> TIME_LIMIT]
  IN  [st |-> SetRoom(st, roomId, [room EXCEPT !.game = Some(game), !.status = "playing"]),
       game |-> game]

\* startGame after its await, on the Room object fetched before it
startGameResume(st, roomId, targetWord, date) ==
  LET room == RoomRef(st, roomId)
      game == [id |-> FreshGameId(st), roomId |-> roomId, targetWord |-> targetWord,
               players |-> room.players, status |-> "playing", startTime |-> Some(date),
               rankings |-> <<>>, timeLimit |-> TIME_LIMIT]
      st1 == SetRoom(st, roomId, [room EXCEPT !.game = Some(game), !.status = "playing"])
  IN  [st |-> [st1 EXCEPT !.heap =
                 [o \in DOMAIN st.heap |->
                   IF o \in SeqToSet(room.players)
                   THEN [st.heap[o] EXCEPT !.status = "playing", !.guesses = <<>>,
                                           !.currentRow = 0]
                   ELSE st.heap[o]]],
       game |-> game]

\* resetGame up to its await
resetGameCheck(st, roomId, leaderId) ==
  IF roomId \notin DOMAIN st.rooms THEN "null"
  ELSE IF ~IsSome(st.rooms[roomId].game) THEN "null"
  ELSE
    LET room == st.rooms[roomId]
        i == PlayerIndex(st, room.players, leaderId)
    IN  IF i = 0 \/ ~st.heap[room.players[i]].isLeader
        THEN "Apenas o lider pode reiniciar o jogo"
        ELSE "await"

\* resetGame after its await: the game gets copies of the players, the room keeps its own
resetGameResume(st, roomId, targetWord) ==
  LET room == RoomRef(st, roomId)
      n == Len(room.players)
      copies == [i \in 1..n |-> FreshOid(st.heap, i)]
      game == [id |-> FreshGameId(st), roomId |-> roomId, targetWord |-> targetWord,
               players |-> copies, status |-> "waiting", startTime |-> None,
               rankings |-> <<>>, timeLimit |-> TIME_LIMIT]
      fresh == [o \in SeqToSet(copies) |->
                 LET i == CHOOSE j \in 1..n : copies[j] = o
                 IN  [st.heap[room.players[i]] EXCEPT !.guesses = <<>>, !.status = "waiting",
                                                      !.currentRow = 0, !.finishTime = None]]
      st1 == SetRoom(st, roomId, [room EXCEPT !.game = Some(game), !.status = "waiting"])
  IN  [st |-> [st1 EXCEPT !.heap = fresh @@ st.heap], game |-> game]

\* the variant of updatePlayer that puts a player the game does not have into the game
updatePlayerAddToGame(st, roomId, updatedPlayer) ==
  IF roomId \notin DOMAIN st.rooms THEN st
  ELSE
    LET room == st.rooms[roomId]
        playerIndex == PlayerIndex(st, room.players, updatedPlayer.id)
    IN  IF playerIndex = 0 THEN st
        ELSE
          LET oid == FreshOid(st.heap, 1)
              st1 == [st EXCEPT !.heap = Put(st.heap, oid, updatedPlayer),
                                !.rooms[roomId].players[playerIndex] = oid]
          IN  IF ~IsSome(room.game) THEN st1
              ELSE
                LET gamePlayerIndex == PlayerIndex(st, Val(room.game).players, updatedPlayer.id)
                IN  IF gamePlayerIndex = 0
                    THEN [st1 EXCEPT !.rooms[roomId].game[1].players =
                                       Append(Val(room.game).players, oid)]
                    ELSE [st1 EXCEPT !.rooms[roomId].game[1].players[gamePlayerIndex] = oid]

updatePlayer(st, roomId, updatedPlayer) ==
  IF roomId \notin DOMAIN st.rooms THEN st
  ELSE
    LET room == st.rooms[roomId]
        playerIndex == PlayerIndex(st, room.players, updatedPlayer.id)
    IN  IF playerIndex = 0 THEN st
        ELSE
          LET oid == FreshOid(st.heap, 1)
              st1 == [st EXCEPT !.heap = Put(st.heap, oid, updatedPlayer),
                                !.rooms[roomId].players[playerIndex] = oid]
          IN  IF ~IsSome(room.game) THEN st1
              ELSE
                LET gamePlayerIndex == PlayerIndex(st, Val(room.game).players, updatedPlayer.id)
                IN  IF gamePlayerIndex = 0 THEN st1
                    ELSE [st1 EXCEPT !.rooms[roomId].game[1].players[gamePlayerIndex] = oid]

\* the variant of checkGameEnd that looks at the room's roster instead of the game's players
checkGameEndRoster(st, roomId) ==
  IF roomId \notin DOMAIN st.rooms THEN [st |-> st, shouldEnd |-> FALSE, rankings |-> <<>>]
  ELSE IF ~IsSome(st.rooms[roomId].game) THEN [st |-> st, shouldEnd |-> FALSE, rankings |-> <<>>]
  ELSE
    LET game == Val(st.rooms[roomId].game)
        roster == PlayersOf(st, st.rooms[roomId].players)
        shouldEnd == shouldGameEnd(roster)
    IN  IF shouldEnd /\ IsSome(game.startTime)
        THEN
          LET rankings == calculateRankings(roster, Val(game.startTime))
          IN  [st |-> [st EXCEPT !.rooms[roomId].game[1].rankings = rankings,
                                 !.rooms[roomId].game[1].status = "finished",
                                 !.rooms[roomId].status = "finished"],
               shouldEnd |-> shouldEnd, rankings |-> rankings]
        ELSE [st |-> st, shouldEnd |-> shouldEnd, rankings |-> game.rankings]

\* the variant of checkGameEnd that finishes the game and leaves room.status
checkGameEndGameOnly(st, roomId) ==
  IF roomId \notin DOMAIN st.rooms THEN [st |-> st, shouldEnd |-> FALSE, rankings |-> <<>>]
  ELSE IF ~IsSome(st.rooms[roomId].game) THEN [st |-> st, shouldEnd |-> FALSE, rankings |-> <<>>]
  ELSE
    LET game == Val(st.rooms[roomId].game)
        shouldEnd == shouldGameEnd(PlayersOf(st, game.players))
    IN  IF shouldEnd /\ IsSome(game.startTime)
        THEN
          LET rankings == calculateRankings(PlayersOf(st, game.players), Val(game.startTime))
          IN  [st |-> [st EXCEPT !.rooms[roomId].game[1].rankings = rankings,
                                 !.rooms[roomId].game[1].status = "finished"],
               shouldEnd |-> shouldEnd, rankings |-> rankings]
        ELSE [st |-> st, shouldEnd |-> shouldEnd, rankings |-> game.rankings]

checkGameEnd(st, roomId) ==
  IF roomId \notin DOMAIN st.rooms THEN [st |-> st, shouldEnd |-> FALSE, rankings |-> <<>>]
  ELSE IF ~IsSome(st.rooms[roomId].game) THEN [st |-> st, shouldEnd |-> FALSE, rankings |-> <<>>]
  ELSE
    LET game == Val(st.rooms[roomId].game)
        shouldEnd == shouldGameEnd(PlayersOf(st, game.players))
    IN  IF shouldEnd /\ IsSome(game.startTime)
        THEN
          LET rankings == calculateRankings(PlayersOf(st, game.players), Val(game.startTime))
          IN  [st |-> [st EXCEPT !.rooms[roomId].game[1].rankings = rankings,
                                 !.rooms[roomId].game[1].status = "finished",
                                 !.rooms[roomId].status = "finished"],
               shouldEnd |-> shouldEnd, rankings |-> rankings]
        ELSE [st |-> st, shouldEnd |-> shouldEnd, rankings |-> game.rankings]

\* ------------------------------------------------------- socket handlers
ToSocket(s, type, data) == [to |-> "socket", target |-> s, type |-> type, data |-> data]
ToRoom(roomId, type, data) == [to |-> "room", target |-> roomId, type |-> type, data |-> data]
Error(s, message) == ToSocket(s, "error", [message |-> message])

\* the player object a suspended submit-guess holds: a heap object, or its own copy
\* once nothing else refers to the object
HeldPlayer(st, c) == IF c.player # 0 THEN st.heap[c.player] ELSE Val(c.copy)

RECURSIVE SortedSeq(_)
SortedSeq(S) == IF S = {} THEN <<>> ELSE <<Min(S)>> \o SortedSeq(S \ {Min(S)})

RECURSIVE Flatten(_)
Flatten(ss) == IF Len(ss) = 0 THEN <<>> ELSE ss[1] \o Flatten(Tail(ss))

RECURSIVE Dedupe(_)
Dedupe(q) ==
  IF Len(q) = 0 THEN <<>>
  ELSE LET front == Dedupe(SubSeq(q, 1, Len(q) - 1))
       IN  IF q[Len(q)] \in SeqToSet(front) THEN front ELSE Append(front, q[Len(q)])

\* The memory after a handler step. Objects nothing refers to any more are dropped
\* and the remaining object ids are renumbered in the order the rooms list them; a
\* room object stays in `detached` only while a suspended handler holds it. A key
\* deleted from the Map leaves its iteration order, a key set for the first time goes
\* to its end.
Commit(st, pend) ==
  LET held == {c.roomId : c \in {d \in pend : d.kind \in {"start", "reset"}}}
      det == [r \in DOMAIN st.detached \cap held |-> st.detached[r]]
      OidsOf(room) ==
        room.players \o (IF IsSome(room.game) THEN Val(room.game).players ELSE <<>>)
      liveIds == SortedSeq(DOMAIN st.rooms)
      detIds == SortedSeq(DOMAIN det)
      order == Dedupe(Flatten([i \in 1..Len(liveIds) |-> OidsOf(st.rooms[liveIds[i]])])
                      \o Flatten([i \in 1..Len(detIds) |-> OidsOf(det[detIds[i]])]))
      Ren(o) == CHOOSE i \in 1..Len(order) : order[i] = o
      RenRoom(room) ==
        [room EXCEPT !.players = [i \in 1..Len(room.players) |-> Ren(room.players[i])],
                     !.game = IF IsSome(room.game)
                              THEN Some([Val(room.game) EXCEPT !.players =
                                     [i \in 1..Len(Val(room.game).players) |->
                                        Ren(Val(room.game).players[i])]])
                              ELSE None]
      RenPending(c) ==
        IF c.kind # "guess" THEN c
        ELSE IF c.player # 0 /\ c.player \in SeqToSet(order)
        THEN [c EXCEPT !.player = Ren(c.player)]
        ELSE [c EXCEPT !.player = 0, !.copy = Some(HeldPlayer(st, c))]
  IN  /\ rooms' = [r \in DOMAIN st.rooms |-> RenRoom(st.rooms[r])]
      /\ roomOrder' = SelectSeq(roomOrder, LAMBDA r : r \in DOMAIN st.rooms)
                         \o SortedSeq(DOMAIN st.rooms \ SeqToSet(roomOrder))
      /\ roomCodes' = st.roomCodes
      /\ detached' = [r \in DOMAIN det |-> RenRoom(det[r])]
      /\ heap' = [i \in 1..Len(order) |-> st.heap[order[i]]]
      /\ pending' = {RenPending(c) : c \in pend}

\* socket.on('create-room')
CreateRoom(s, playerName, password, maxPlayers) ==
  /\ s \notin closed
  /\ \E roomCode \in generateRoomCode(Mem) :
       LET r == createRoom(Mem, playerName, password, maxPlayers, s, roomCode, now)
       IN  /\ Commit(r.st, pending)
           /\ connectedPlayers' = Put(connectedPlayers, s, r.player.id)
           /\ emitted' = <<ToSocket(s, "room-created",
                                    [room |-> r.room, code |-> roomCode, player |-> r.player.id])>>
  /\ UNCHANGED <<closed, now, submits, probe>>

\* socket.on('join-room')
JoinRoom(s, roomCode, playerName, password) ==
  /\ s \notin closed
  /\ LET r == joinRoom(Mem, roomCode, playerName, password, s)
     IN  IF IsSome(r.error)
         THEN /\ emitted' = <<Error(s, IF Val(r.error) = "null" THEN "Sala nao encontrada"
                                       ELSE Val(r.error))>>
              /\ UNCHANGED <<rooms, roomOrder, roomCodes, detached, heap, pending, connectedPlayers>>
         ELSE /\ Commit(r.st, pending)
              /\ connectedPlayers' = Put(connectedPlayers, s, Val(r.player).id)
              /\ emitted' = <<ToRoom(r.room, "player-joined",
                                     [player |-> Val(r.player).id,
                                      playerCount |-> Len(r.st.rooms[r.room].players)]),
                              ToSocket(s, "room-joined",
                                       [room |-> r.room, player |-> Val(r.player).id])>>
  /\ UNCHANGED <<closed, now, submits, probe>>

\* socket.on('start-game') up to the await inside startGame
StartGame(s, roomId, playerId) ==
  /\ s \notin closed
  /\ LET r == startGameCheck(Mem, roomId, playerId)
     IN  IF r = "await"
         THEN /\ pending' = pending \cup {[kind |-> "start", roomId |-> roomId, socket |-> s]}
              /\ emitted' = <<>>
         ELSE /\ emitted' = <<Error(s, IF r = "null" THEN "Nao foi possivel iniciar o jogo" ELSE r)>>
              /\ UNCHANGED pending
  /\ UNCHANGED <<rooms, roomOrder, roomCodes, detached, heap, connectedPlayers, closed, now, submits, probe>>

\* socket.on('start-game') from the await on
StartGameResume(c) ==
  /\ c \in pending /\ c.kind = "start"
  /\ \E targetWord \in RandomWords :
       LET r == startGameResume(Mem, c.roomId, targetWord, now)
       IN  /\ Commit(r.st, pending \ {c})
           /\ emitted' = <<ToRoom(c.roomId, "game-started",
                                  [gameId |-> r.game.id, targetWord |-> r.game.targetWord,
                                   startTime |-> r.game.startTime,
                                   timeLimit |-> r.game.timeLimit])>>
  /\ UNCHANGED <<connectedPlayers, closed, now, submits, probe>>

\* socket.on('reset-game') up to the await inside resetGame
ResetGame(s, roomId, playerId) ==
  /\ s \notin closed
  /\ LET r == resetGameCheck(Mem, roomId, playerId)
     IN  IF r = "await"
         THEN /\ pending' = pending \cup {[kind |-> "reset", roomId |-> roomId, socket |-> s]}
              /\ emitted' = <<>>
         ELSE /\ emitted' = <<Error(s, IF r = "null" THEN "Nao foi possivel reiniciar o jogo" ELSE r)>>
              /\ UNCHANGED pending
  /\ UNCHANGED <<rooms, roomOrder, roomCodes, detached, heap, connectedPlayers, closed, now, submits, probe>>

\* socket.on('reset-game') from the await on
ResetGameResume(c) ==
  /\ c \in pending /\ c.kind = "reset"
  /\ \E targetWord \in RandomWords :
       LET r == resetGameResume(Mem, c.roomId, targetWord)
       IN  /\ Commit(r.st, pending \ {c})
           /\ emitted' = <<ToRoom(c.roomId, "game-reset", [gameId |-> r.game.id])>>
  /\ UNCHANGED <<connectedPlayers, closed, now, submits, probe>>

\* socket.on('submit-guess') up to `await GameService.validateGuess(...)`: the room, the
\* player object and the result against the current target are fixed here
SubmitGuess(s, roomId, playerId, guess) ==
  /\ s \notin closed
  /\ IF roomId \notin DOMAIN rooms \/ ~IsSome(RoomRef(Mem, roomId).game)
     THEN /\ emitted' = <<Error(s, "Jogo nao encontrado")>>
          /\ UNCHANGED <<pending, submits>>
     ELSE
       LET room == rooms[roomId]
           i == PlayerIndex(Mem, room.players, playerId)
       IN  IF i = 0
           THEN /\ emitted' = <<Error(s, "Jogador nao encontrado")>>
                /\ UNCHANGED <<pending, submits>>
           ELSE /\ submits' = submits + 1
                /\ pending' = pending \cup
                     {[kind |-> "guess", roomId |-> roomId, socket |-> s, playerId |-> playerId,
                       player |-> room.players[i], copy |-> None, guess |-> guess,
                       result |-> validateGuess(guess, Val(room.game).targetWord)]}
                /\ emitted' = <<>>
  /\ UNCHANGED <<rooms, roomOrder, roomCodes, detached, heap, connectedPlayers, closed, now, probe>>

\* socket.on('submit-guess') from the await on
submitGuessResume(st, c, date) ==
  LET player == HeldPlayer(st, c)
      guess == createGuess(c.guess, c.result)
      updatedPlayer == updatePlayerAfterGuess(player, guess, date)
      st1 == updatePlayer(st, c.roomId, updatedPlayer)
      gameEndResult == checkGameEnd(st1, c.roomId)
  IN  [st |-> gameEndResult.st,
       emitted |->
         <<ToSocket(c.socket, "guess-result",
                    [guess |-> c.guess, result |-> c.result,
                     currentRow |-> updatedPlayer.currentRow, status |-> updatedPlayer.status]),
           ToRoom(c.roomId, "player-progress",
                  [playerId |-> c.playerId, currentRow |-> updatedPlayer.currentRow,
                   status |-> updatedPlayer.status])>>
         \o (IF gameEndResult.shouldEnd
             THEN <<ToRoom(c.roomId, "game-finished", [rankings |-> gameEndResult.rankings])>>
             ELSE <<>>)]

SubmitGuessResume(c) ==
  /\ c \in pending /\ c.kind = "guess"
  /\ LET r == submitGuessResume(Mem, c, now)
     IN  /\ Commit(r.st, pending \ {c})
         /\ emitted' = r.emitted
  /\ UNCHANGED <<connectedPlayers, closed, now, submits, probe>>

\* socket.on('disconnect') for a socket that connectedPlayers maps to playerId
disconnectHandler(st, playerId, date) ==
  LET holders == {r \in DOMAIN st.rooms : PlayerIndex(st, st.rooms[r].players, playerId) # 0}
  IN  IF holders = {} THEN [st |-> st, emitted |-> <<>>]
      ELSE
        LET roomId == CHOOSE r \in holders : TRUE
            result == removePlayer(st, roomId, playerId)
        IN  IF result.destroyed
            THEN [st |-> result.st,
                  emitted |-> IF result.reason = Some("leader_left")
                              THEN <<ToRoom(roomId, "room-destroyed", [reason |-> "leader_left"])>>
                              ELSE <<>>]
            ELSE
              LET st1 == result.st
                  room == st1.rooms[roomId]
                  left == ToRoom(roomId, "player-left",
                                 [playerId |-> playerId, playerCount |-> Len(room.players)])
                  gamePlayerIndex ==
                    IF IsSome(room.game) THEN PlayerIndex(st1, Val(room.game).players, playerId)
                    ELSE 0
              IN  IF IsSome(room.game) /\ Val(room.game).status = "playing" /\ gamePlayerIndex # 0
                  THEN
                    LET oid == Val(room.game).players[gamePlayerIndex]
                        st2 == [st1 EXCEPT !.heap[oid].status = "lost",
                                           !.heap[oid].finishTime = Some(date)]
                        gameEndResult == checkGameEnd(st2, roomId)
                    IN  [st |-> gameEndResult.st,
                         emitted |-> <<left>> \o
                           (IF gameEndResult.shouldEnd
                            THEN <<ToRoom(roomId, "game-finished",
                                          [rankings |-> gameEndResult.rankings])>>
                            ELSE <<>>)]
                  ELSE [st |-> st1, emitted |-> <<left>>]

Disconnect(s) ==
  /\ s \notin closed
  /\ closed' = closed \cup {s}
  /\ IF s \in DOMAIN connectedPlayers
     THEN LET r == disconnectHandler(Mem, connectedPlayers[s], now)
          IN  /\ Commit(r.st, pending)
              /\ emitted' = r.emitted
              /\ connectedPlayers' = Drop(connectedPlayers, s)
     ELSE /\ emitted' = <<>>
          /\ UNCHANGED <<rooms, roomOrder, roomCodes, detached, heap, pending, connectedPlayers>>
  /\ UNCHANGED <<now, submits, probe>>

\* time passes between two handler steps
Tick ==
  /\ now' = now + 1
  /\ UNCHANGED <<rooms, roomOrder, roomCodes, detached, heap, connectedPlayers, closed, pending,
                 emitted, submits, probe>>

\* ------------------------------------------------------------ specification
Init ==
  /\ rooms = <<>>
  /\ roomOrder = <<>>
  /\ roomCodes = <<>>
  /\ detached = <<>>
  /\ heap = <<>>
  /\ connectedPlayers = <<>>
  /\ closed = {}
  /\ pending = {}
  /\ now = 0
  /\ emitted = <<>>
  /\ submits = 0
  /\ probe = <<>>

\* The ids a client sends are the ones the server gave its socket: the player that
\* connectedPlayers holds for it and the room that player is in (UnknownId once that
\* room is gone).
ClientPlayer(s) == IF s \in DOMAIN connectedPlayers THEN connectedPlayers[s] ELSE UnknownId
ClientRoom(s) ==
  LET holders == {r \in DOMAIN rooms : PlayerIndex(Mem, rooms[r].players, ClientPlayer(s)) # 0}
  IN  IF holders = {} THEN UnknownId ELSE CHOOSE r \in holders : TRUE

\* whether the handler gets past its validation with these inputs
JoinAccepted(k, n, pw) ==
  LET r == joinRoom(Mem, k, n, pw, 0)
  IN  ~IsSome(r.error) /\ Len(rooms[r.room].players) < MaxRoster
GuessAccepted(r, p) ==
  /\ r \in DOMAIN rooms
  /\ IsSome(rooms[r].game)
  /\ PlayerIndex(Mem, rooms[r].players, p) # 0

\* The handlers on the inputs they accept (a handler that rejects its input emits an
\* error to the sender and changes nothing else), with clients that create or join
\* one room per connection under a name of their own.
Next ==
  \/ \E s \in Sockets \ DOMAIN connectedPlayers :
       /\ Cardinality(DOMAIN rooms) < MaxRooms
       /\ CreateRoom(s, NameOf(s), None, DEFAULT_MAX_PLAYERS)
       /\ DOMAIN roomCodes' \subseteq Codes
  \/ \E s \in Sockets \ DOMAIN connectedPlayers, k \in Codes :
       /\ JoinAccepted(k, NameOf(s), None)
       /\ JoinRoom(s, k, NameOf(s), None)
  \/ \E s \in Sockets :
       /\ Cardinality(pending) < MaxPending
       /\ startGameCheck(Mem, ClientRoom(s), ClientPlayer(s)) = "await"
       /\ StartGame(s, ClientRoom(s), ClientPlayer(s))
  \/ \E c \in pending : StartGameResume(c)
  \/ \E s \in Sockets :
       /\ Cardinality(pending) < MaxPending
       /\ resetGameCheck(Mem, ClientRoom(s), ClientPlayer(s)) = "await"
       /\ ResetGame(s, ClientRoom(s), ClientPlayer(s))
  \/ \E c \in pending : ResetGameResume(c)
  \/ \E s \in Sockets, g \in GuessInputs :
       /\ Cardinality(pending) < MaxPending
       /\ submits < MaxSubmits
       /\ GuessAccepted(ClientRoom(s), ClientPlayer(s))
       /\ SubmitGuess(s, ClientRoom(s), ClientPlayer(s), g)
  \/ \E c \in pending : SubmitGuessResume(c)
  \/ \E s \in Sockets : Disconnect(s)
  \/ now < MaxTime /\ Tick

Spec == Init /\ [][Next]_vars

\* One round played on: a room is filled, its game is started and the players keep
\* submitting guesses; nobody leaves and the game is not reset.
NextRound ==
  \/ \E s \in Sockets \ DOMAIN connectedPlayers :
       /\ Cardinality(DOMAIN rooms) < MaxRooms
       /\ CreateRoom(s, NameOf(s), None, DEFAULT_MAX_PLAYERS)
       /\ DOMAIN roomCodes' \subseteq Codes
  \/ \E s \in Sockets \ DOMAIN connectedPlayers, k \in Codes :
       /\ JoinAccepted(k, NameOf(s), None)
       /\ JoinRoom(s, k, NameOf(s), None)
  \/ \E s \in Sockets :
       /\ Cardinality(pending) < MaxPending
       /\ startGameCheck(Mem, ClientRoom(s), ClientPlayer(s)) = "await"
       /\ ~IsSome(rooms[ClientRoom(s)].game)
       /\ StartGame(s, ClientRoom(s), ClientPlayer(s))
  \/ \E c \in pending : StartGameResume(c)
  \/ \E s \in Sockets, g \in GuessInputs :
       /\ Cardinality(pending) < MaxPending
       /\ submits < MaxRoundSubmits
       /\ GuessAccepted(ClientRoom(s), ClientPlayer(s))
       /\ SubmitGuess(s, ClientRoom(s), ClientPlayer(s), g)
  \/ \E c \in pending : SubmitGuessResume(c)

SpecRound == Init /\ [][NextRound]_vars

\* Guesses in bursts: a room is filled, its game is started, and the players submit
\* words, from the word file or not, without waiting for the answer to the one before;
\* a second submit-guess is taken while the handler of the first is still suspended.
NextBurst ==
  \/ \E s \in Sockets \ DOMAIN connectedPlayers :
       /\ Cardinality(DOMAIN rooms) < MaxRooms
       /\ CreateRoom(s, NameOf(s), None, DEFAULT_MAX_PLAYERS)
       /\ DOMAIN roomCodes' \subseteq Codes
  \/ \E s \in Sockets \ DOMAIN connectedPlayers, k \in Codes :
       /\ JoinAccepted(k, NameOf(s), None)
       /\ JoinRoom(s, k, NameOf(s), None)
  \/ \E s \in Sockets :
       /\ pending = {}
       /\ startGameCheck(Mem, ClientRoom(s), ClientPlayer(s)) = "await"
       /\ ~IsSome(rooms[ClientRoom(s)].game)
       /\ StartGame(s, ClientRoom(s), ClientPlayer(s))
  \/ \E c \in pending : StartGameResume(c)
  \/ \E s \in Sockets, g \in GuessInputs \cup InvalidGuessInputs :
       /\ Cardinality(pending) < MaxBurstPending
       /\ submits < MaxBurstSubmits
       /\ GuessAccepted(ClientRoom(s), ClientPlayer(s))
       /\ \A c \in pending : c.socket # s \/ c.guess # g
       /\ SubmitGuess(s, ClientRoom(s), ClientPlayer(s), g)
  \/ \E c \in pending : SubmitGuessResume(c)

SpecBurst == Init /\ [][NextBurst]_vars

\* ------------------------------------------------------------ validateGuess on its own
Alphabet == <<"a", "b", "c", "d", "e">>
EvalLetters == {Alphabet[i] : i \in 1..Min({MaxEvalLetters, Len(Alphabet)})}

\* guesses as clients type them, one of them with an accent
EvalGuesses ==
  [1..WORD_LENGTH -> EvalLetters]
    \cup {<<"c", "a~", "b", "b", "a">>, <<"a", "a", "b", "b", "c">>,
          <<"f", "g", "h", "i", "j">>}

\* target words as getRandomWord returns them
EvalTargets ==
  {toUpperCase(w) : w \in [1..WORD_LENGTH -> EvalLetters]}
    \cup {<<"C", "A~", "B", "B", "A">>, <<"A", "B", "C", "D", "E">>}

InitEval ==
  /\ rooms = <<>>
  /\ roomOrder = <<>>
  /\ roomCodes = <<>>
  /\ detached = <<>>
  /\ heap = <<>>
  /\ connectedPlayers = <<>>
  /\ closed = {}
  /\ pending = {}
  /\ now = 0
  /\ emitted = <<>>
  /\ submits = 0
  /\ probe \in [guess : EvalGuesses, targetWord : EvalTargets, result : {None}]

Evaluate ==
  /\ probe.result = None
  /\ probe' = [probe EXCEPT !.result = Some(validateGuess(probe.guess, probe.targetWord))]
  /\ UNCHANGED <<rooms, roomOrder, roomCodes, detached, heap, connectedPlayers, closed, pending,
                 now, emitted, submits>>

NextEval == Evaluate

SpecEval == InitEval /\ [][NextEval]_vars

\* ------------------------------------------------------------ calculateRankings on its own
\* the players of a game that started at time 0: player i has id i, and a player
\* that has won or lost has the finish time it was given with that status
RankPlayer(i) ==
  {p \in [id : {i}, name : {NameOf(i)}, socketId : {i}, isLeader : {i = 1},
          status : {"won", "lost", "playing"},
          guesses : {[k \in 1..n |-> createGuess(<<"a", "b", "c", "a", "b">>, <<>>)] :
                       n \in 1..MaxRankGuesses},
          currentRow : {0},
          finishTime : {None} \cup {Some(t) : t \in 0..MaxRankTime}] :
     p.status \in {"won", "lost"} => IsSome(p.finishTime)}

RankInputs ==
  UNION {{p \in [1..n -> UNION {RankPlayer(i) : i \in 1..n}] :
            \A i \in 1..n : p[i].id = i} : n \in 1..MaxRankPlayers}

InitRank ==
  /\ rooms = <<>>
  /\ roomOrder = <<>>
  /\ roomCodes = <<>>
  /\ detached = <<>>
  /\ heap = <<>>
  /\ connectedPlayers = <<>>
  /\ closed = {}
  /\ pending = {}
  /\ now = 0
  /\ emitted = <<>>
  /\ submits = 0
  /\ probe \in [players : RankInputs, gameStartTime : {0}, result : {None}]

Rank ==
  /\ probe.result = None
  /\ probe' = [probe EXCEPT
                 !.result = Some(calculateRankings(probe.players, probe.gameStartTime))]
  /\ UNCHANGED <<rooms, roomOrder, roomCodes, detached, heap, connectedPlayers, closed, pending,
                 now, emitted, submits>>

NextRank == Rank

SpecRank == InitRank /\ [][NextRank]_vars

\* ------------------------------------------------------------ joining, with every input
\* data.playerName, data.roomCode, data.password and settings.maxPlayers as clients send them
JoinNames == {"ana", "Ana", "bia"}
JoinCodes == CodeInputs \cup {"ZZ"}
JoinPasswords == {None, Some("pw"), Some("xx")}
JoinCapacities == {1, 2, DEFAULT_MAX_PLAYERS}

\* create-room, join-room with accepted and with rejected requests, also from a
\* connection that is in a room already, and disconnect
NextJoin ==
  \/ \E s \in Sockets \ DOMAIN connectedPlayers, n \in JoinNames,
        pw \in {None, Some("pw")}, m \in JoinCapacities :
       /\ Cardinality(DOMAIN rooms) < MaxRooms
       /\ CreateRoom(s, n, pw, m)
       /\ DOMAIN roomCodes' \subseteq Codes
  \/ \E s \in Sockets, k \in JoinCodes, n \in JoinNames, pw \in JoinPasswords :
       /\ \A r \in DOMAIN rooms : Len(rooms[r].players) <= MaxJoinRoster
       /\ JoinRoom(s, k, n, pw)
  \/ \E s \in DOMAIN connectedPlayers : Disconnect(s)

SpecJoin == Init /\ [][NextJoin]_vars

\* ------------------------------------------------------------ start and reset, with every input
\* data.roomId and data.playerId as any client may send them
RoomIdInputs == DOMAIN rooms \cup {UnknownId}
PlayerIdInputs ==
  UNION {{heap[rooms[r].players[i]].id : i \in 1..Len(rooms[r].players)} : r \in DOMAIN rooms}
    \cup {UnknownId}

\* create-room, join-room, disconnect, and start-game and reset-game with accepted and
\* with rejected requests
NextErrors ==
  \/ \E s \in Sockets \ DOMAIN connectedPlayers :
       /\ Cardinality(DOMAIN rooms) < MaxRooms
       /\ CreateRoom(s, NameOf(s), None, DEFAULT_MAX_PLAYERS)
       /\ DOMAIN roomCodes' \subseteq Codes
  \/ \E s \in Sockets \ DOMAIN connectedPlayers, k \in Codes :
       /\ JoinAccepted(k, NameOf(s), None)
       /\ JoinRoom(s, k, NameOf(s), None)
  \/ \E s \in Sockets, roomId \in RoomIdInputs, playerId \in PlayerIdInputs :
       /\ Cardinality(pending) < MaxPending
       /\ StartGame(s, roomId, playerId)
  \/ \E c \in pending : StartGameResume(c)
  \/ \E s \in Sockets, roomId \in RoomIdInputs, playerId \in PlayerIdInputs :
       /\ Cardinality(pending) < MaxPending
       /\ ResetGame(s, roomId, playerId)
  \/ \E c \in pending : ResetGameResume(c)
  \/ \E s \in DOMAIN connectedPlayers : Disconnect(s)

SpecErrors == Init /\ [][NextErrors]_vars

\* ------------------------------------------------------------ the room list and the cleanup
\* the entry of getPublicRooms for a room
PublicRoomInfo(room) ==
  [id |-> room.id, code |-> room.code, playerCount |-> Len(room.players),
   maxPlayers |-> room.maxPlayers, status |-> room.status, isPrivate |-> room.isPrivate,
   createdAt |-> room.createdAt]

\* Array.from(this.rooms.values())
RoomValues(st, order) == [i \in 1..Len(order) |-> st.rooms[order[i]]]

\* the comparator handed to sort in getPublicRooms
ComparePublicRooms(a, b) == b.createdAt - a.createdAt

RECURSIVE InsertPublicRoom(_, _)
InsertPublicRoom(sorted, x) ==
  IF Len(sorted) = 0 THEN <<x>>
  ELSE IF ComparePublicRooms(x, sorted[Len(sorted)]) < 0
  THEN Append(InsertPublicRoom(SubSeq(sorted, 1, Len(sorted) - 1), x), sorted[Len(sorted)])
  ELSE Append(sorted, x)

RECURSIVE SortPublicRooms(_)
SortPublicRooms(s) ==
  IF Len(s) = 0 THEN <<>>
  ELSE InsertPublicRoom(SortPublicRooms(SubSeq(s, 1, Len(s) - 1)), s[Len(s)])

\* the variant of getPublicRooms without its sort
getPublicRoomsUnsorted(st, order) ==
  LET filtered == SelectSeq(RoomValues(st, order), LAMBDA room : Len(room.players) > 0)
  IN  [i \in 1..Len(filtered) |-> PublicRoomInfo(filtered[i])]

getPublicRooms(st, order) ==
  LET filtered == SelectSeq(RoomValues(st, order), LAMBDA room : Len(room.players) > 0)
  IN  SortPublicRooms([i \in 1..Len(filtered) |-> PublicRoomInfo(filtered[i])])

\* the variant of cleanupInactiveRooms without `room.players.length === 0`
RECURSIVE cleanupInactiveRoomsAnyRoster(_, _, _)
cleanupInactiveRoomsAnyRoster(st, order, date) ==
  IF Len(order) = 0 THEN st
  ELSE
    LET roomId == order[1]
        room == st.rooms[roomId]
    IN  cleanupInactiveRoomsAnyRoster(
          IF date - room.createdAt > INACTIVE_TIMEOUT THEN deleteRoom(st, roomId) ELSE st,
          Tail(order), date)

\* cleanupInactiveRooms: the loop over the entries of the Map, `order` the keys to visit
RECURSIVE cleanupInactiveRooms(_, _, _)
cleanupInactiveRooms(st, order, date) ==
  IF Len(order) = 0 THEN st
  ELSE
    LET roomId == order[1]
        room == st.rooms[roomId]
    IN  cleanupInactiveRooms(
          IF date - room.createdAt > INACTIVE_TIMEOUT /\ Len(room.players) = 0
          THEN deleteRoom(st, roomId) ELSE st,
          Tail(order), date)

\* app.get('/api/rooms'): the response is kept as the last thing sent
GetPublicRooms ==
  /\ emitted' = <<[to |-> "response", target |-> "/api/rooms", type |-> "public-rooms",
                   data |-> getPublicRooms(Mem, roomOrder)]>>
  /\ UNCHANGED <<rooms, roomOrder, roomCodes, detached, heap, connectedPlayers, closed,
                 pending, now, submits, probe>>

\* the setInterval callback
CleanupInactiveRooms ==
  /\ Commit(cleanupInactiveRooms(Mem, roomOrder, now), pending)
  /\ emitted' = <<>>
  /\ UNCHANGED <<connectedPlayers, closed, now, submits, probe>>

\* d milliseconds pass between two handler steps
Elapse(d) ==
  /\ now' = now + d
  /\ UNCHANGED <<rooms, roomOrder, roomCodes, detached, heap, connectedPlayers, closed,
                 pending, emitted, submits, probe>>

\* the codes the draws of generateRoomCode end with in SpecRooms
ListCodes == {CodeList[i] : i \in 1..Min({MaxListRooms, Len(CodeList)})}

\* create-room, join-room and disconnect with several rooms live, over a time longer
\* than the timeout of the cleanup, with the room list and the cleanup
NextRooms ==
  \/ \E s \in Sockets \ DOMAIN connectedPlayers :
       /\ Cardinality(DOMAIN rooms) < MaxListRooms
       /\ CreateRoom(s, NameOf(s), None, DEFAULT_MAX_PLAYERS)
       /\ DOMAIN roomCodes' \subseteq ListCodes
  \/ \E s \in Sockets \ DOMAIN connectedPlayers, k \in ListCodes :
       /\ JoinAccepted(k, NameOf(s), None)
       /\ JoinRoom(s, k, NameOf(s), None)
  \/ \E s \in DOMAIN connectedPlayers : Disconnect(s)
  \/ \E d \in {1, INACTIVE_TIMEOUT} :
       /\ now + d <= MaxIdleTime
       /\ d = 1 => now % INACTIVE_TIMEOUT < MaxTime
       /\ Elapse(d)
  \/ CleanupInactiveRooms
  \/ GetPublicRooms

SpecRooms == Init /\ [][NextRooms]_vars

\* ------------------------------------------------------------ removePlayer on its own
\* RoomService.removePlayer called with any room id and player id on the memory the
\* handlers have made; the memory before the call and the result are kept in probe
RemovePlayerCall(roomId, playerId) ==
  /\ probe' = [st |-> Mem, roomId |-> roomId, playerId |-> playerId,
               result |-> removePlayer(Mem, roomId, playerId)]
  /\ UNCHANGED <<rooms, roomOrder, roomCodes, detached, heap, connectedPlayers, closed,
                 pending, now, emitted, submits>>

\* the handlers make rooms of up to MaxJoinRoster players, with and without a game and
\* a password, then removePlayer is called once
NextRemove ==
  \/ /\ DOMAIN probe = {}
     /\ \/ \E s \in Sockets \ DOMAIN connectedPlayers, pw \in {None, Some("pw")} :
             /\ Cardinality(DOMAIN rooms) < MaxRooms
             /\ CreateRoom(s, NameOf(s), pw, DEFAULT_MAX_PLAYERS)
             /\ DOMAIN roomCodes' \subseteq Codes
        \/ \E s \in Sockets, k \in Codes, n \in JoinNames, pw \in {None, Some("pw")} :
             /\ LET r == joinRoom(Mem, k, n, pw, s)
                IN  ~IsSome(r.error) /\ Len(rooms[r.room].players) < MaxJoinRoster
             /\ JoinRoom(s, k, n, pw)
        \/ \E s \in Sockets :
             /\ Cardinality(pending) < MaxPending
             /\ startGameCheck(Mem, ClientRoom(s), ClientPlayer(s)) = "await"
             /\ ~IsSome(rooms[ClientRoom(s)].game)
             /\ StartGame(s, ClientRoom(s), ClientPlayer(s))
        \/ \E c \in pending : StartGameResume(c)
        \/ \E s \in DOMAIN connectedPlayers : Disconnect(s)
  \/ /\ DOMAIN probe = {}
     /\ pending = {}
     /\ \E roomId \in RoomIdInputs, playerId \in PlayerIdInputs :
          RemovePlayerCall(roomId, playerId)

SpecRemove == Init /\ [][NextRemove]_vars

\* --------------------------------------------------- updatePlayerAfterGuess on its own
RecordTarget == <<"A", "B", "C", "A", "B">>

\* words a client sends, the first of them the target
RecordWords ==
  {<<"a", "b", "c", "a", "b">>, <<"c", "a", "b", "b", "a">>,
   <<"a", "b", "c", "b", "a">>, <<"c", "c", "c", "c", "c">>}

\* guesses as submit-guess builds them
RecordGuesses == {createGuess(w, validateGuess(w, RecordTarget)) : w \in RecordWords}

\* players of a running game: fewer than 6 guesses, none of them the target, and the
\* finishTime of an earlier round where there was one (startGame leaves it)
RecordPlayers ==
  [id : {1}, name : {NameOf(1)}, socketId : {1}, isLeader : {TRUE},
   status : {"playing"},
   guesses : {[k \in 1..n |->
                 createGuess(<<"c", "a", "b", "b", "a">>,
                             validateGuess(<<"c", "a", "b", "b", "a">>, RecordTarget))] :
                n \in 0..(MAX_GUESSES - 1)},
   currentRow : 0..(MAX_GUESSES - 1),
   finishTime : {None, Some(0)}]

InitRecord ==
  /\ rooms = <<>>
  /\ roomOrder = <<>>
  /\ roomCodes = <<>>
  /\ detached = <<>>
  /\ \E p \in RecordPlayers : p.currentRow = Len(p.guesses) /\ heap = <<p>>
  /\ connectedPlayers = <<>>
  /\ closed = {}
  /\ pending = {}
  /\ now \in 1..MaxRecordTime
  /\ emitted = <<>>
  /\ submits = 0
  /\ probe \in [player : {1}, guess : RecordGuesses, result : {None}]

\* updatedPlayer is a new object, the one passed in is not written
Record ==
  /\ probe.result = None
  /\ probe' = [probe EXCEPT
                 !.result = Some(updatePlayerAfterGuess(heap[probe.player], probe.guess, now))]
  /\ UNCHANGED <<rooms, roomOrder, roomCodes, detached, heap, connectedPlayers, closed, pending,
                 now, emitted, submits>>

NextRecord == Record

SpecRecord == InitRecord /\ [][NextRecord]_vars

\* ------------------------------------------------------------ joining a started game
LateSockets == 1..MaxLateSockets

\* create-room, join-room at any time (joinRoom does not look at the room's status),
\* start-game, submit-guess from any player of the room, a participant of the game
\* or not, and disconnect
NextLate ==
  \/ \E s \in LateSockets \ DOMAIN connectedPlayers :
       /\ Cardinality(DOMAIN rooms) < MaxRooms
       /\ CreateRoom(s, NameOf(s), None, DEFAULT_MAX_PLAYERS)
       /\ DOMAIN roomCodes' \subseteq Codes
  \/ \E s \in LateSockets \ DOMAIN connectedPlayers, k \in Codes :
       /\ ~IsSome(joinRoom(Mem, k, NameOf(s), None, 0).error)
       /\ JoinRoom(s, k, NameOf(s), None)
  \/ \E s \in LateSockets :
       /\ pending = {}
       /\ startGameCheck(Mem, ClientRoom(s), ClientPlayer(s)) = "await"
       /\ StartGame(s, ClientRoom(s), ClientPlayer(s))
  \/ \E c \in pending : StartGameResume(c)
  \/ \E s \in LateSockets, g \in GuessInputs :
       /\ pending = {}
       /\ submits < MaxLateSubmits
       /\ GuessAccepted(ClientRoom(s), ClientPlayer(s))
       /\ SubmitGuess(s, ClientRoom(s), ClientPlayer(s), g)
  \/ \E c \in pending : SubmitGuessResume(c)
  \/ \E s \in LateSockets : Disconnect(s)

SpecLate == Init /\ [][NextLate]_vars

\* ------------------------------------------------------------- properties
Terminal(player) == player.status \in {"won", "lost"}

\* the roster of room r, as Player records
Roster(r) == PlayersOf(Mem, rooms[r].players)

\* the record game.players of room r holds for playerId, in the memory (rms, hp)
SessionRecord(rms, hp, r, playerId) ==
  LET oids == Val(rms[r].game).players
  IN  hp[oids[FindIndex(oids, LAMBDA o : hp[o].id = playerId)]]

IsParticipant(r, playerId) ==
  /\ r \in DOMAIN rooms
  /\ IsSome(rooms[r].game)
  /\ PlayerIndex(Mem, Val(rooms[r].game).players, playerId) # 0

\* the disconnect handler runs for socket s in this step
Disconnects(s) == s \in DOMAIN connectedPlayers /\ s \notin closed /\ s \in closed'

\* the player of socket s is in the roster of a room, as its leader or not
InRoomAs(s, leader) ==
  /\ s \in DOMAIN connectedPlayers
  /\ ClientRoom(s) \in DOMAIN rooms
  /\ \E i \in 1..Len(rooms[ClientRoom(s)].players) :
       /\ Roster(ClientRoom(s))[i].id = ClientPlayer(s)
       /\ Roster(ClientRoom(s))[i].isLeader = leader

\* the player of socket s leads a room that has other players too
LeaderWithOthers(s) == InRoomAs(s, TRUE) /\ Len(rooms[ClientRoom(s)].players) >= 2

\* C1: when removePlayer, called by the disconnect handler, removes the leader of a
\* room that has other players, it reports destroyed with the reason leader_left, the
\* room is gone from `rooms` and its code from `roomCodes`, the room-destroyed event
\* is broadcast, and no remaining player is made leader.
C1_LeaderLeftDestroysRoom ==
  [][\A s \in Sockets :
       (LeaderWithOthers(s) /\ Disconnects(s)) =>
         LET roomId == ClientRoom(s)
             room == rooms[roomId]
             remaining == {Roster(roomId)[i].id : i \in 1..Len(room.players)}
                            \ {ClientPlayer(s)}
             result == removePlayer(Mem, roomId, ClientPlayer(s))
         IN  /\ result.destroyed
             /\ result.reason = Some("leader_left")
             /\ result.room = None
             /\ roomId \notin DOMAIN result.st.rooms
             /\ room.code \notin DOMAIN result.st.roomCodes
             /\ \A o \in DOMAIN result.st.heap :
                  result.st.heap[o].id \in remaining => ~result.st.heap[o].isLeader
             /\ roomId \notin DOMAIN rooms'
             /\ room.code \notin DOMAIN roomCodes'
             /\ \A o \in DOMAIN heap' : heap'[o].id \in remaining => ~heap'[o].isLeader
             /\ emitted' = <<ToRoom(roomId, "room-destroyed", [reason |-> "leader_left"])>>
    ]_vars

\* the leader of a room has just left while another player was still connected to it
C1_Witness ==
  /\ Len(emitted) = 1
  /\ emitted[1].type = "room-destroyed"
  /\ emitted[1].data.reason = "leader_left"
  /\ emitted[1].target \notin DOMAIN rooms
  /\ DOMAIN connectedPlayers # {}
  /\ closed # {}

\* C2: every room in the registry whose roster is not empty has exactly one player
\* with isLeader set.
C2_ExactlyOneLeader ==
  \A r \in DOMAIN rooms :
    Len(rooms[r].players) > 0 =>
      Cardinality({i \in 1..Len(rooms[r].players) : Roster(r)[i].isLeader}) = 1

\* a room that has a game and has lost a player keeps its leader
C2_Witness ==
  \E r \in DOMAIN rooms :
    /\ IsSome(rooms[r].game)
    /\ Len(rooms[r].players) < Len(Val(rooms[r].game).players)
    /\ Len(rooms[r].players) > 0
    /\ Cardinality({i \in 1..Len(rooms[r].players) : Roster(r)[i].isLeader}) = 1

\* the suspended submit-guess c finishes in this step
GuessResumes(c) ==
  /\ c \in pending /\ c.kind = "guess"
  /\ Cardinality(pending') < Cardinality(pending)
  /\ ~\E d \in pending' : d.kind = "guess" /\ d.socket = c.socket /\ d.guess = c.guess

\* C3: won and lost are terminal: a guess of a player whose record in the game is won
\* or lost leaves that status as it is.
C3_TerminalStatusKept ==
  [][\A c \in pending :
       (/\ GuessResumes(c)
        /\ IsParticipant(c.roomId, c.playerId)
        /\ Terminal(SessionRecord(rooms, heap, c.roomId, c.playerId))
        /\ c.roomId \in DOMAIN rooms') =>
         SessionRecord(rooms', heap', c.roomId, c.playerId).status
           = SessionRecord(rooms, heap, c.roomId, c.playerId).status
    ]_vars

\* C4: no player object holds more than 6 guesses, and no currentRow exceeds 6.
C4_AtMostSixGuesses ==
  \A o \in DOMAIN heap :
    /\ Len(heap[o].guesses) <= MAX_GUESSES
    /\ heap[o].currentRow <= MAX_GUESSES

\* the rooms whose game was started with at least 2 players
StartedRooms ==
  {r \in DOMAIN rooms :
     /\ IsSome(rooms[r].game)
     /\ IsSome(Val(rooms[r].game).startTime)
     /\ Len(Val(rooms[r].game).players) >= 2}

AllTerminal(r) ==
  \A i \in 1..Len(Val(rooms[r].game).players) :
    Terminal(PlayersOf(Mem, Val(rooms[r].game).players)[i])

\* C5: in a room whose game was started with N >= 2 players, whenever all of the
\* game's players are won or lost the end check answers true, room and game are
\* finished, and the rankings have one entry per player of the game, ranked 1..N.
C5_AllTerminalFinishes ==
  \A r \in StartedRooms :
    AllTerminal(r) =>
      LET game == Val(rooms[r].game)
          N == Len(game.players)
      IN  /\ checkGameEnd(Mem, r).shouldEnd
          /\ rooms[r].status = "finished"
          /\ game.status = "finished"
          /\ Len(game.rankings) = N
          /\ \A i \in 1..N : game.rankings[i].rank = i
          /\ {game.rankings[i].playerId : i \in 1..N}
               = {PlayersOf(Mem, game.players)[i].id : i \in 1..N}

\* a started game all of whose players are won or lost, one of them by leaving
C5_Witness ==
  \E r \in StartedRooms :
    /\ AllTerminal(r)
    /\ Len(rooms[r].players) < Len(Val(rooms[r].game).players)
    /\ \E i \in 1..Len(Val(rooms[r].game).players) :
         PlayersOf(Mem, Val(rooms[r].game).players)[i].status = "won"

\* C6: the rankings of a finished game are computed once: while the room keeps that
\* game, no step replaces them.
C6_RankingsComputedOnce ==
  [][\A r \in DOMAIN rooms :
       (/\ IsSome(rooms[r].game)
        /\ Val(rooms[r].game).status = "finished"
        /\ r \in DOMAIN rooms'
        /\ IsSome(rooms'[r].game)
        /\ Val(rooms'[r].game).id = Val(rooms[r].game).id) =>
         Val(rooms'[r].game).rankings = Val(rooms[r].game).rankings
    ]_vars

\* the player of socket s takes part in the playing game of its room and does not
\* lead the room
NonLeaderInPlay(s) ==
  /\ InRoomAs(s, FALSE)
  /\ IsParticipant(ClientRoom(s), ClientPlayer(s))
  /\ Val(rooms[ClientRoom(s)].game).status = "playing"

\* C7: when a non-leader player of a playing game disconnects, its record in the
\* game becomes lost with finishTime = now if it was neither won nor lost, and keeps
\* its status and its finishTime if it was already won or lost.
C7_DisconnectKeepsTerminal ==
  [][\A s \in Sockets :
       (NonLeaderInPlay(s) /\ Disconnects(s)) =>
         LET r == ClientRoom(s)
             before == SessionRecord(rooms, heap, r, ClientPlayer(s))
             after == SessionRecord(rooms', heap', r, ClientPlayer(s))
         IN  IF Terminal(before)
             THEN after.status = before.status /\ after.finishTime = before.finishTime
             ELSE after.status = "lost" /\ after.finishTime = Some(now)
    ]_vars

\* all the players of the game of socket s's room, its own player apart, are won or lost
OthersTerminal(s) ==
  LET players == PlayersOf(Mem, Val(rooms[ClientRoom(s)].game).players)
  IN  \A i \in 1..Len(players) :
        players[i].id # ClientPlayer(s) => Terminal(players[i])

\* C8: when a non-leader player of a playing game disconnects while all the other
\* players of the game are won or lost, the same step finishes game and room, the
\* rankings cover all the game's players, the departed one included, and the step
\* emits player-left and then game-finished with these rankings.
C8_LastPlayerLeavesFinishes ==
  [][\A s \in Sockets :
       (NonLeaderInPlay(s) /\ OthersTerminal(s) /\ Disconnects(s)) =>
         LET r == ClientRoom(s)
             game == Val(rooms[r].game)
             ids == {PlayersOf(Mem, game.players)[i].id : i \in 1..Len(game.players)}
         IN  /\ r \in DOMAIN rooms'
             /\ IsSome(rooms'[r].game)
             /\ Val(rooms'[r].game).id = game.id
             /\ rooms'[r].status = "finished"
             /\ Val(rooms'[r].game).status = "finished"
             /\ Len(Val(rooms'[r].game).rankings) = Len(game.players)
             /\ {Val(rooms'[r].game).rankings[i].playerId : i \in 1..Len(game.players)} = ids
             /\ emitted' =
                  <<ToRoom(r, "player-left",
                           [playerId |-> ClientPlayer(s),
                            playerCount |-> Len(rooms[r].players) - 1]),
                    ToRoom(r, "game-finished",
                           [rankings |-> Val(rooms'[r].game).rankings])>>
    ]_vars

\* a player has just left a game that only waited for it: the game is finished and
\* ranks the player that left
C8_Witness ==
  /\ Len(emitted) = 2
  /\ emitted[1].type = "player-left"
  /\ emitted[2].type = "game-finished"
  /\ \E i \in 1..Len(emitted[2].data.rankings) :
       emitted[2].data.rankings[i].playerId = emitted[1].data.playerId
  /\ \E r \in DOMAIN rooms : rooms[r].status = "finished"

\* the status column of a guess result
Statuses(result) == [i \in 1..Len(result) |-> result[i].status]

\* C9: no game is ever created with fewer than 2 players.
C9_AtLeastTwoPlayers ==
  \A r \in DOMAIN rooms :
    IsSome(rooms[r].game) => Len(Val(rooms[r].game).players) >= 2

\* C10: every guess recorded for a player of a game was evaluated against the target
\* word of that game: its result is what validateGuess gives for its word and the
\* game's targetWord.
C10_GuessesOfThisGame ==
  \A r \in DOMAIN rooms :
    IsSome(rooms[r].game) =>
      LET game == Val(rooms[r].game)
          players == PlayersOf(Mem, game.players)
      IN  \A i \in 1..Len(players) :
            \A k \in 1..Len(players[i].guesses) :
              Statuses(players[i].guesses[k].result)
                = Statuses(validateGuess(players[i].guesses[k].word, game.targetWord))

\* the guesses the roster of room r holds for playerId, in the memory (rms, hp)
History(rms, hp, r, playerId) ==
  LET oids == rms[r].players
  IN  hp[oids[FindIndex(oids, LAMBDA o : hp[o].id = playerId)]].guesses

\* C11: no submitted guess is lost or overwritten: when the handler of a guess of a
\* player of the room finishes, the player's history is the history it had before,
\* followed by that guess.
C11_GuessAppended ==
  [][\A c \in pending :
       (/\ GuessResumes(c)
        /\ c.roomId \in DOMAIN rooms
        /\ PlayerIndex(Mem, rooms[c.roomId].players, c.playerId) # 0) =>
         History(rooms', heap', c.roomId, c.playerId)
           = Append(History(rooms, heap, c.roomId, c.playerId), createGuess(c.guess, c.result))
    ]_vars

\* the suspended reset-game / start-game c finishes in this step
Resumes(c, kind) == c \in pending /\ c.kind = kind /\ c \notin pending'

\* what identifies the players of a roster: id, name and leader flag, in order
Identities(players) ==
  [i \in 1..Len(players) |->
    [id |-> players[i].id, name |-> players[i].name, isLeader |-> players[i].isLeader]]

\* C12: after a reset every player of the room is waiting with no guesses, currentRow
\* 0 and no finishTime, the roster is who it was, and room and game are waiting.
C12_ResetClearsPlayers ==
  [][\A c \in pending :
       (Resumes(c, "reset") /\ c.roomId \in DOMAIN rooms) =>
         LET r == c.roomId
             roster == PlayersOf([heap |-> heap'], rooms'[r].players)
         IN  /\ \A i \in 1..Len(roster) :
                  /\ roster[i].status = "waiting"
                  /\ roster[i].guesses = <<>>
                  /\ roster[i].currentRow = 0
                  /\ roster[i].finishTime = None
             /\ Identities(roster) = Identities(Roster(r))
             /\ rooms'[r].status = "waiting"
             /\ Val(rooms'[r].game).status = "waiting"
    ]_vars

\* C13: after a start the players of the game are the players of the room, the same
\* objects in the same order, the roster is who it was, every player of the room is
\* playing with no guesses and currentRow 0, and room and game are playing.
C13_StartSnapshotsRoster ==
  [][\A c \in pending :
       (Resumes(c, "start") /\ c.roomId \in DOMAIN rooms) =>
         LET r == c.roomId
             roster == PlayersOf([heap |-> heap'], rooms'[r].players)
         IN  /\ Val(rooms'[r].game).players = rooms'[r].players
             /\ Identities(roster) = Identities(Roster(r))
             /\ \A i \in 1..Len(roster) :
                  /\ roster[i].status = "playing"
                  /\ roster[i].guesses = <<>>
                  /\ roster[i].currentRow = 0
             /\ rooms'[r].status = "playing"
             /\ Val(rooms'[r].game).status = "playing"
    ]_vars

\* a game has just been started in a room whose players had guessed in the game before
C13_Witness ==
  /\ Len(emitted) = 1
  /\ emitted[1].type = "game-started"
  /\ submits > 0
  /\ pending = {}
  /\ \E r \in DOMAIN rooms :
       /\ rooms[r].status = "playing"
       /\ Len(rooms[r].players) >= 2
       /\ \A i \in 1..Len(rooms[r].players) : Roster(r)[i].guesses = <<>>

\* the status changes of the state machine of a room and of its game
AllowedStatusChange(old, new) ==
  \/ old = new
  \/ old = "waiting" /\ new = "playing"
  \/ old = "playing" /\ new = "finished"
  \/ new = "waiting"

\* C14: the status of a room, and the status of its game, only goes from waiting to
\* playing, from playing to finished, or from any status to waiting.
C14_StatusTransitions ==
  [][\A r \in DOMAIN rooms \cap DOMAIN rooms' :
       /\ AllowedStatusChange(rooms[r].status, rooms'[r].status)
       /\ (IsSome(rooms[r].game) /\ IsSome(rooms'[r].game)) =>
            AllowedStatusChange(Val(rooms[r].game).status, Val(rooms'[r].game).status)
    ]_vars

\* the positions of a guess result that hold letter x with one of the given marks
Marked(guess, result, x, marks) ==
  {i \in 1..Len(result) : normalizeWord(guess)[i] = x /\ result[i].status \in marks}

Occurrences(word, x) == {i \in 1..Len(word) : normalizeWord(word)[i] = x}

\* C15: in the result of validateGuess, the positions marked correct or present for a
\* letter are at most as many as the letter occurs in the target, the positions marked
\* present at most as many as its occurrences that are not matched as correct, and the
\* guess AABBC against ABCDE gives correct, absent, present, absent, present.
C15_MarksBoundedByTarget ==
  IsSome(probe.result) =>
    LET result == Val(probe.result)
        guess == probe.guess
        targetWord == probe.targetWord
    IN  /\ \A x \in SeqToSet(normalizeWord(guess)) :
             /\ Cardinality(Marked(guess, result, x, {"correct", "present"}))
                  <= Cardinality(Occurrences(targetWord, x))
             /\ Cardinality(Marked(guess, result, x, {"present"}))
                  <= Cardinality(Occurrences(targetWord, x))
                       - Cardinality(Marked(guess, result, x, {"correct"}))
        /\ (guess = <<"a", "a", "b", "b", "c">> /\ targetWord = <<"A", "B", "C", "D", "E">>) =>
             [i \in 1..Len(result) |-> result[i].status]
               = <<"correct", "absent", "present", "absent", "present">>

\* a guess with a letter more often than the target has it, evaluated
C15_Witness ==
  /\ IsSome(probe.result)
  /\ probe.guess = <<"a", "a", "b", "b", "c">>
  /\ probe.targetWord = <<"A", "B", "C", "D", "E">>

\* the order of the ranking: a is ranked strictly above b
RankedAbove(a, b) ==
  \/ a.status = "won" /\ b.status = "lost"
  \/ /\ a.status = b.status
     /\ \/ a.guessesUsed < b.guessesUsed
        \/ /\ a.guessesUsed = b.guessesUsed
           /\ \/ IsSome(a.timeTaken) /\ IsSome(b.timeTaken) /\ Val(a.timeTaken) < Val(b.timeTaken)
              \/ IsSome(a.timeTaken) /\ ~IsSome(b.timeTaken)

\* C16: calculateRankings returns the players, each once, so that no entry comes after
\* one it is ranked above (won before lost, then fewer guesses, then the shorter time
\* when both have one, a time of 0 included, then finished before unfinished), and
\* entries that tie stay in the order of the input.
C16_RankingOrder ==
  IsSome(probe.result) =>
    LET result == Val(probe.result)
    IN  /\ Len(result) = Len(probe.players)
        /\ \A i \in 1..Len(probe.players) : \E j \in 1..Len(result) : result[j].playerId = i
        /\ \A i, j \in 1..Len(result) :
             i < j =>
               /\ ~RankedAbove(result[j], result[i])
               /\ ~RankedAbove(result[i], result[j]) => result[i].playerId < result[j].playerId

\* C17: a submit-guess with a word that isValidGuess does not accept appends nothing
\* to the player's guesses, leaves the player's currentRow and status as they are, and
\* emits no guess-result, player-progress or game-finished.
C17_InvalidGuessRejected ==
  [][\A c \in pending :
       (/\ GuessResumes(c)
        /\ ~isValidGuess(c.guess)
        /\ c.roomId \in DOMAIN rooms
        /\ PlayerIndex(Mem, rooms[c.roomId].players, c.playerId) # 0) =>
         /\ c.roomId \in DOMAIN rooms'
         /\ SessionRecord(rooms', heap', c.roomId, c.playerId)
              = SessionRecord(rooms, heap, c.roomId, c.playerId)
         /\ History(rooms', heap', c.roomId, c.playerId)
              = History(rooms, heap, c.roomId, c.playerId)
         /\ \A i \in 1..Len(emitted') :
              emitted'[i].type \notin {"guess-result", "player-progress", "game-finished"}
    ]_vars

\* the rooms whose code is the code a client typed, upper-cased
RoomsWithCode(k) == {r \in DOMAIN rooms : rooms[r].code = UpperCode(k)}

\* the messages of the failures that apply to a join of room r as n with password pw
JoinFailures(r, n, pw) ==
  (IF rooms[r].isPrivate /\ pw # rooms[r].password
   THEN {"Esta sala e privada. Digite a senha.", "Senha incorreta"} ELSE {})
  \cup (IF Len(rooms[r].players) >= rooms[r].maxPlayers THEN {"Sala cheia"} ELSE {})
  \cup (IF \E i \in 1..Len(rooms[r].players) : Roster(r)[i].name = n
        THEN {"Nome ja esta em uso nesta sala"} ELSE {})

JoinRejected(s, messages) ==
  /\ Len(emitted') = 1
  /\ emitted'[1].type = "error"
  /\ emitted'[1].to = "socket" /\ emitted'[1].target = s
  /\ emitted'[1].data.message \in messages
  /\ UNCHANGED <<rooms, roomOrder, roomCodes, heap, connectedPlayers>>

\* C18: a join-room with an unknown code fails with "Sala nao encontrada"; one of a
\* private room with no or another password, of a full room or with a name of the roster
\* fails with the message of one of these failures; a failed join changes no room, no
\* player and no map; any other join appends one waiting non-leader player of that name
\* at the end of the roster and changes nothing else of the rooms.
C18_JoinRoomOutcome ==
  [][\A s \in Sockets, k \in JoinCodes, n \in JoinNames, pw \in JoinPasswords :
       JoinRoom(s, k, n, pw) =>
         IF RoomsWithCode(k) = {} THEN JoinRejected(s, {"Sala nao encontrada"})
         ELSE \E r \in RoomsWithCode(k) :
                IF JoinFailures(r, n, pw) # {} THEN JoinRejected(s, JoinFailures(r, n, pw))
                ELSE LET roster == PlayersOf([heap |-> heap'], rooms'[r].players)
                         player == roster[Len(roster)]
                     IN  /\ SubSeq(roster, 1, Len(roster) - 1) = Roster(r)
                         /\ Len(roster) = Len(Roster(r)) + 1
                         /\ player.name = n
                         /\ ~player.isLeader
                         /\ player.status = "waiting"
                         /\ roomCodes' = roomCodes
                         /\ DOMAIN rooms' = DOMAIN rooms
                         /\ \A q \in DOMAIN rooms :
                              [rooms'[q] EXCEPT !.players = <<>>] = [rooms[q] EXCEPT !.players = <<>>]
                         /\ \A q \in DOMAIN rooms \ {r} :
                              PlayersOf([heap |-> heap'], rooms'[q].players) = Roster(q)
    ]_vars

\* a join of a room that is full has been rejected
C18_Witness ==
  /\ Len(emitted) = 1
  /\ emitted[1].type = "error"
  /\ emitted[1].data.message = "Sala cheia"
  /\ \E r \in DOMAIN rooms : Len(rooms[r].players) = rooms[r].maxPlayers

\* C20: no two players of the roster of a room have the same name.
C20_UniqueNames ==
  \A r \in DOMAIN rooms :
    \A i, j \in 1..Len(rooms[r].players) :
      Roster(r)[i].name = Roster(r)[j].name => i = j

\* a join under a name of the roster has been rejected, and the roster has names that
\* differ in case only
C20_Witness ==
  /\ Len(emitted) = 1
  /\ emitted[1].type = "error"
  /\ emitted[1].data.message = "Nome ja esta em uso nesta sala"
  /\ \E r \in DOMAIN rooms :
       {"ana", "Ana"} \subseteq {Roster(r)[i].name : i \in 1..Len(rooms[r].players)}

\* playerId is the id of the leader of room r
IsLeaderOf(r, playerId) ==
  \E i \in 1..Len(rooms[r].players) : Roster(r)[i].id = playerId /\ Roster(r)[i].isLeader

\* the messages of the failures that apply to a start of room r by playerId
StartFailures(r, playerId) ==
  (IF ~IsLeaderOf(r, playerId) THEN {"Apenas o lider pode iniciar o jogo"} ELSE {})
  \cup (IF Len(rooms[r].players) < 2 THEN {"Sao necessarios pelo menos 2 jogadores"} ELSE {})

\* the messages of the failures that apply to a reset of room r by playerId
ResetFailures(r, playerId) ==
  (IF ~IsLeaderOf(r, playerId) THEN {"Apenas o lider pode reiniciar o jogo"} ELSE {})
  \cup (IF ~IsSome(rooms[r].game) THEN {"Nao foi possivel reiniciar o jogo"} ELSE {})

\* the request ends with one error for its socket and nothing else
RequestRejected(s, messages) ==
  /\ Len(emitted') = 1
  /\ emitted'[1].type = "error"
  /\ emitted'[1].to = "socket" /\ emitted'[1].target = s
  /\ emitted'[1].data.message \in messages
  /\ UNCHANGED <<rooms, roomOrder, roomCodes, detached, heap, connectedPlayers, closed, pending>>

\* C19: a start-game for a player that is not the leader of the room or for a room of
\* fewer than 2 players, and a reset-game for a player that is not the leader or for a
\* room without a game, change no room, no player and no game, leave no handler
\* suspended, and emit one error, to the socket of the request.
C19_FailedStartResetChangeNothing ==
  [][\A s \in Sockets, r \in DOMAIN rooms, playerId \in PlayerIdInputs :
       /\ (StartGame(s, r, playerId) /\ StartFailures(r, playerId) # {}) =>
            RequestRejected(s, StartFailures(r, playerId))
       /\ (ResetGame(s, r, playerId) /\ ResetFailures(r, playerId) # {}) =>
            RequestRejected(s, ResetFailures(r, playerId))
    ]_vars

\* a reset of a room with a game has been refused to a player that is not its leader
C19_Witness ==
  /\ Len(emitted) = 1
  /\ emitted[1].type = "error"
  /\ emitted[1].data.message = "Apenas o lider pode reiniciar o jogo"
  /\ \E r \in DOMAIN rooms : IsSome(rooms[r].game) /\ Len(rooms[r].players) >= 2

\* C21: the roster of a room is never longer than the room's maxPlayers.
C21_RosterWithinCapacity ==
  \A r \in DOMAIN rooms : Len(rooms[r].players) <= rooms[r].maxPlayers

\* a room of capacity 2 has been filled again by a join after a player of it left
C21_Witness ==
  /\ closed # {}
  /\ Len(emitted) = 2
  /\ emitted[1].type = "player-joined"
  /\ \E r \in DOMAIN rooms :
       /\ rooms[r].maxPlayers = 2
       /\ Len(rooms[r].players) = 2

\* C22: no two rooms have the same code, the code of every room is mapped to the
\* room's id, every code of roomCodes is mapped to a room, and the code of a room that
\* create-room has made was the code of no room before.
C22_CodesUnique ==
  /\ [](/\ \A q, r \in DOMAIN rooms : rooms[q].code = rooms[r].code => q = r
        /\ \A r \in DOMAIN rooms :
             rooms[r].code \in DOMAIN roomCodes /\ roomCodes[rooms[r].code] = r
        /\ \A k \in DOMAIN roomCodes : roomCodes[k] \in DOMAIN rooms)
  /\ [][(Len(emitted') = 1 /\ emitted'[1].type = "room-created" /\ rooms' # rooms) =>
          emitted'[1].data.code \notin {rooms[r].code : r \in DOMAIN rooms}
       ]_vars

\* a second room has been created next to a live one
C22_Witness ==
  /\ Len(emitted) = 1
  /\ emitted[1].type = "room-created"
  /\ Cardinality(DOMAIN rooms) = 2

\* C28: the response of the room list has one entry for every room with at least one
\* player and no other entry, the entries are in descending order of createdAt, and an
\* entry has the id, code, playerCount, maxPlayers, status, isPrivate and createdAt of
\* its room and no other field.
C28_PublicRooms ==
  (Len(emitted) = 1 /\ emitted[1].type = "public-rooms") =>
    LET list == emitted[1].data
    IN  /\ {list[i].id : i \in 1..Len(list)} = {r \in DOMAIN rooms : Len(rooms[r].players) >= 1}
        /\ \A i, j \in 1..Len(list) : list[i].id = list[j].id => i = j
        /\ \A i, j \in 1..Len(list) : i < j => list[i].createdAt >= list[j].createdAt
        /\ \A i \in 1..Len(list) :
             LET room == rooms[list[i].id]
             IN  /\ DOMAIN list[i] = {"id", "code", "playerCount", "maxPlayers", "status",
                                      "isPrivate", "createdAt"}
                 /\ list[i].code = room.code
                 /\ list[i].playerCount = Len(room.players)
                 /\ list[i].maxPlayers = room.maxPlayers
                 /\ list[i].status = room.status
                 /\ list[i].isPrivate = room.isPrivate
                 /\ list[i].createdAt = room.createdAt

\* the list of two rooms made at different times has been sent
C28_Witness ==
  /\ Len(emitted) = 1
  /\ emitted[1].type = "public-rooms"
  /\ Len(emitted[1].data) = 2
  /\ emitted[1].data[1].createdAt > emitted[1].data[2].createdAt

\* C29: the cleanup removes a room only if it was made more than the timeout ago and
\* has no player; a room with a player stays as it is, with its players, and its code
\* stays mapped to it; no code is added to roomCodes.
C29_CleanupOnlyIdleEmpty ==
  [][CleanupInactiveRooms =>
       /\ \A r \in DOMAIN rooms \ DOMAIN rooms' :
            now - rooms[r].createdAt > INACTIVE_TIMEOUT /\ Len(rooms[r].players) = 0
       /\ \A r \in DOMAIN rooms :
            Len(rooms[r].players) >= 1 =>
              /\ r \in DOMAIN rooms'
              /\ [rooms'[r] EXCEPT !.players = <<>>, !.game = None]
                   = [rooms[r] EXCEPT !.players = <<>>, !.game = None]
              /\ PlayersOf([heap |-> heap'], rooms'[r].players) = Roster(r)
              /\ roomCodes'[rooms[r].code] = r
       /\ DOMAIN rooms' \subseteq DOMAIN rooms
       /\ DOMAIN roomCodes' \subseteq DOMAIN roomCodes
       /\ \A r \in DOMAIN rooms' : rooms'[r].code \in DOMAIN roomCodes'
    ]_vars

\* the time of a cleanup: a room with a player that was made more than the timeout ago
C29_Witness ==
  /\ emitted = <<>>
  /\ \E r \in DOMAIN rooms :
       /\ now - rooms[r].createdAt > INACTIVE_TIMEOUT
       /\ Len(rooms[r].players) >= 1

\* the ids of the players of room r in memory st, in roster order
RosterIds(st, r) == [i \in 1..Len(st.rooms[r].players) |-> st.heap[st.rooms[r].players[i]].id]

\* C23: removePlayer of the only player of a room deletes the room and its code with
\* reason empty; removePlayer of a player that is not the leader takes that player out
\* of the roster and changes nothing else: the other players, their order, the other
\* fields of the room, the other rooms and roomCodes; removePlayer with a room id or a
\* player id that is unknown changes nothing and reports destroyed = false.
C23_RemovePlayerFrame ==
  DOMAIN probe # {} =>
    LET st == probe.st
        r == probe.roomId
        p == probe.playerId
        res == probe.result
    IN  IF r \notin DOMAIN st.rooms \/ p \notin SeqToSet(RosterIds(st, r))
        THEN res.st = st /\ ~res.destroyed
        ELSE
          LET room == st.rooms[r]
              i == CHOOSE k \in 1..Len(room.players) : RosterIds(st, r)[k] = p
              kept == SelectSeq(room.players, LAMBDA o : st.heap[o].id # p)
          IN  /\ Len(room.players) = 1 =>
                   /\ res.destroyed /\ res.reason = Some("empty")
                   /\ r \notin DOMAIN res.st.rooms
                   /\ room.code \notin DOMAIN res.st.roomCodes
              /\ ~st.heap[room.players[i]].isLeader =>
                   /\ ~res.destroyed
                   /\ DOMAIN res.st.rooms = DOMAIN st.rooms
                   /\ res.st.rooms[r] = [room EXCEPT !.players = kept]
                   /\ Len(kept) = Len(room.players) - 1
                   /\ \A o \in SeqToSet(kept) : res.st.heap[o] = st.heap[o]
                   /\ \A q \in DOMAIN st.rooms \ {r} : res.st.rooms[q] = st.rooms[q]
                   /\ res.st.roomCodes = st.roomCodes

\* removePlayer has taken the second of three players out of a room with a game
C23_Witness ==
  /\ DOMAIN probe # {}
  /\ probe.roomId \in DOMAIN probe.st.rooms
  /\ Len(probe.st.rooms[probe.roomId].players) = 3
  /\ RosterIds(probe.st, probe.roomId)[2] = probe.playerId
  /\ IsSome(probe.st.rooms[probe.roomId].game)
  /\ ~probe.result.destroyed

\* C24: once the disconnect of a socket has been handled, no room has a player that
\* was made for that socket.
C24_DisconnectRemovesPlayers ==
  \A s \in closed : \A r \in DOMAIN rooms :
    \A i \in 1..Len(rooms[r].players) : Roster(r)[i].socketId # s

\* C25: a game-started event has the id of the game, the start time and the time
\* limit and nothing else, and no event has the target word of a game as a field.
C25_TargetWordNotSent ==
  \A i \in 1..Len(emitted) :
    /\ emitted[i].type = "game-started" =>
         DOMAIN emitted[i].data = {"gameId", "startTime", "timeLimit"}
    /\ "targetWord" \notin DOMAIN emitted[i].data

\* a handler has run: the step is not the passing of time
HandlerStep == <<rooms, heap, pending, closed, connectedPlayers>>' # <<rooms, heap, pending, closed, connectedPlayers>>

\* C26: a handler emits game-finished to a room only in a step that takes the game of
\* the room from playing to finished, and the event has the rankings of the game, one
\* entry for every player of the game.
C26_FinishedOnlyAtEnd ==
  [][HandlerStep =>
       \A i \in 1..Len(emitted') :
         emitted'[i].type = "game-finished" =>
           LET r == emitted'[i].target
           IN  /\ r \in DOMAIN rooms /\ r \in DOMAIN rooms'
               /\ IsSome(rooms[r].game) /\ IsSome(rooms'[r].game)
               /\ Val(rooms[r].game).status = "playing"
               /\ Val(rooms'[r].game).status = "finished"
               /\ emitted'[i].data.rankings = Val(rooms'[r].game).rankings
               /\ Len(emitted'[i].data.rankings) = Len(Val(rooms'[r].game).players)
    ]_vars

\* C27: the leader of a room is the player create-room made it with, the first of its
\* roster: a player of a room keeps its isLeader from step to step, a player that
\* joins is no leader, and start-game and reset-game go on only for the leader's id.
C27_LeaderIsCreator ==
  /\ [](\A r \in DOMAIN rooms : \A i \in 1..Len(rooms[r].players) :
          Roster(r)[i].isLeader <=> i = 1)
  /\ [][/\ \A r \in DOMAIN rooms \cap DOMAIN rooms' :
             LET roster == PlayersOf([heap |-> heap'], rooms'[r].players)
             IN  \A j \in 1..Len(roster) :
                   IF \E i \in 1..Len(Roster(r)) : Roster(r)[i].id = roster[j].id
                   THEN \A i \in 1..Len(Roster(r)) :
                          Roster(r)[i].id = roster[j].id =>
                            Roster(r)[i].isLeader = roster[j].isLeader
                   ELSE ~roster[j].isLeader
        /\ \A s \in Sockets, r \in RoomIdInputs, p \in PlayerIdInputs :
             ((StartGame(s, r, p) \/ ResetGame(s, r, p)) /\ pending' # pending) =>
               r \in DOMAIN rooms /\ IsLeaderOf(r, p)
       ]_vars

\* the creator leads a room with a game that another player has left
C27_Witness ==
  /\ closed # {}
  /\ \E r \in DOMAIN rooms :
       /\ IsSome(rooms[r].game)
       /\ Roster(r)[1].isLeader
       /\ Roster(r)[1].name = "ana"

\* C30: updatePlayerAfterGuess on a playing player returns a player with the guess
\* appended and currentRow the new number of guesses, status won iff every letter of
\* the guess is correct, lost iff it is not and the guesses are now 6, playing
\* otherwise, finishTime the date of the call when the status is won or lost and
\* left as it was otherwise; the player passed in keeps all its fields.
C30_RecordGuess ==
  /\ [](IsSome(probe.result) =>
          LET player == heap[probe.player]
              guess == probe.guess
              updated == Val(probe.result)
              allCorrect == \A i \in 1..Len(guess.result) : guess.result[i].status = "correct"
          IN  /\ updated.guesses = Append(player.guesses, guess)
              /\ updated.currentRow = Len(updated.guesses)
              /\ updated.status \in {"won", "lost", "playing"}
              /\ updated.status = "won" <=> allCorrect
              /\ updated.status = "lost" <=> (~allCorrect /\ Len(updated.guesses) = 6)
              /\ updated.finishTime =
                   IF updated.status \in {"won", "lost"} THEN Some(now) ELSE player.finishTime
              /\ [f \in DOMAIN updated \ {"guesses", "currentRow", "status", "finishTime"} |->
                    updated[f]]
                   = [f \in DOMAIN player \ {"guesses", "currentRow", "status", "finishTime"} |->
                        player[f]]
              /\ player.status = "playing"
              /\ Len(player.guesses) < 6)
  /\ [][Record => heap'[probe.player] = heap[probe.player]]_vars

\* the sixth guess of a player was recorded and was not the target
C30_Witness ==
  /\ IsSome(probe.result)
  /\ Val(probe.result).status = "lost"
  /\ Len(Val(probe.result).guesses) = 6
  /\ Val(probe.result).finishTime = Some(now)
  /\ heap[probe.player].finishTime = Some(0)

\* the result statuses of the evaluated guess
StatusesOf(result) == [i \in 1..Len(result) |-> result[i].status]

\* C31: validateGuess returns 5 letter results; position i is correct iff the
\* normalized letters of guess and target at i are equal; of the other positions of
\* the guess that hold a letter x, the leftmost ones are present, as many as x has
\* occurrences in the target at unmatched positions, and the rest absent; AABBC
\* against ABCAB gives correct and four present, FGHIJ against ABCDE five absent.
C31_EvaluateGuess ==
  IsSome(probe.result) =>
    LET result == Val(probe.result)
        g == normalizeWord(probe.guess)
        t == normalizeWord(probe.targetWord)
        unmatched == {i \in 1..5 : g[i] # t[i]}
    IN  /\ Len(result) = 5
        /\ \A i \in 1..5 : result[i].status = "correct" <=> g[i] = t[i]
        /\ \A i \in unmatched :
             LET k == Cardinality({j \in unmatched : t[j] = g[i]})
                 before == Cardinality({j \in unmatched : j < i /\ g[j] = g[i]})
             IN  result[i].status = IF before < k THEN "present" ELSE "absent"
        /\ (probe.guess = <<"a", "a", "b", "b", "c">>
              /\ probe.targetWord = <<"A", "B", "C", "A", "B">>) =>
             StatusesOf(result) = <<"correct", "present", "present", "present", "present">>
        /\ (probe.guess = <<"f", "g", "h", "i", "j">>
              /\ probe.targetWord = <<"A", "B", "C", "D", "E">>) =>
             StatusesOf(result) = <<"absent", "absent", "absent", "absent", "absent">>

\* a guess evaluated that has a letter at more unmatched positions than the target
\* has left of it, so that one of them is present and a later one absent
C31_Witness ==
  /\ IsSome(probe.result)
  /\ \E i, j \in 1..5 :
       /\ i < j
       /\ normalizeWord(probe.guess)[i] = normalizeWord(probe.guess)[j]
       /\ Val(probe.result)[i].status = "present"
       /\ Val(probe.result)[j].status = "absent"

\* C32: a room that holds a game has the status of its game.
C32_RoomStatusMirrorsGame ==
  \A r \in DOMAIN rooms :
    IsSome(rooms[r].game) => rooms[r].status = Val(rooms[r].game).status

\* a room whose game is finished, and one whose game was reset after a player left
C32_Witness ==
  \E r \in DOMAIN rooms :
    /\ IsSome(rooms[r].game)
    /\ rooms[r].status = "finished"
    /\ Val(rooms[r].game).status = "finished"
    /\ closed # {}

\* the game of room r as far as its players, its end and its rankings go
SessionView(rms, hp, r) ==
  LET game == Val(rms[r].game)
  IN  [id |-> game.id, status |-> game.status, rankings |-> game.rankings,
       players |-> PlayersOf([heap |-> hp], game.players)]

\* C33: as long as a room holds one game, the players of the game are the same, in
\* the same order, whoever joins the room or disconnects; a join-room, and a guess
\* recorded for a player of the room that the game does not have, leave the game's
\* players, status and rankings as they are.
C33_ParticipantsFixed ==
  [][\A r \in DOMAIN rooms \cap DOMAIN rooms' :
       (IsSome(rooms[r].game) /\ IsSome(rooms'[r].game)
          /\ Val(rooms[r].game).id = Val(rooms'[r].game).id) =>
         /\ [i \in 1..Len(Val(rooms'[r].game).players) |->
               heap'[Val(rooms'[r].game).players[i]].id]
              = [i \in 1..Len(Val(rooms[r].game).players) |->
                   heap[Val(rooms[r].game).players[i]].id]
         /\ Len(rooms'[r].players) > Len(rooms[r].players) =>
              SessionView(rooms', heap', r) = SessionView(rooms, heap, r)
         /\ \A c \in pending :
              (c.kind = "guess" /\ c.roomId = r /\ ~IsParticipant(r, c.playerId)
                 /\ SubmitGuessResume(c)) =>
                SessionView(rooms', heap', r) = SessionView(rooms, heap, r)
    ]_vars

\* a room with a game that a participant has left and where a guess of a player who
\* joined after the start has been recorded
C33_Witness ==
  \E r \in DOMAIN rooms :
    /\ IsSome(rooms[r].game)
    /\ \E i \in 1..Len(rooms[r].players) :
         /\ ~IsParticipant(r, Roster(r)[i].id)
         /\ Len(Roster(r)[i].guesses) > 0
    /\ Len(Val(rooms[r].game).players) = 2
    /\ \E i \in 1..2 :
         PlayerIndex(Mem, rooms[r].players, heap[Val(rooms[r].game).players[i]].id) = 0

\* C34: a game has rankings only when its status is finished, and every player of a
\* finished game has status won or lost.
C34_FinishedMeansAllTerminal ==
  \A r \in DOMAIN rooms :
    IsSome(rooms[r].game) =>
      LET game == Val(rooms[r].game)
      IN  /\ Len(game.rankings) > 0 => game.status = "finished"
          /\ game.status = "finished" =>
               \A i \in 1..Len(game.players) : Terminal(heap[game.players[i]])

\* C35: a submit-guess that is handled while the game of the room is not playing, or
\* for a player whose status is not playing, changes no player's guesses or status,
\* in the room's roster or in the game.
C35_GuessOnlyWhilePlaying ==
  [][\A c \in pending :
       (c.kind = "guess" /\ SubmitGuessResume(c) /\ c.roomId \in DOMAIN rooms
          /\ IsSome(rooms[c.roomId].game)
          /\ PlayerIndex(Mem, rooms[c.roomId].players, c.playerId) # 0
          /\ \/ Val(rooms[c.roomId].game).status # "playing"
             \/ Roster(c.roomId)[PlayerIndex(Mem, rooms[c.roomId].players, c.playerId)].status
                  # "playing") =>
         /\ PlayersOf([heap |-> heap'], rooms'[c.roomId].players) = Roster(c.roomId)
         /\ PlayersOf([heap |-> heap'], Val(rooms'[c.roomId].game).players)
              = PlayersOf(Mem, Val(rooms[c.roomId].game).players)
    ]_vars

\* C36: every room in the registry has at least one player, so that
\* cleanupInactiveRooms, whenever it runs, deletes nothing.
C36_NoEmptyRoom ==
  /\ [](\A r \in DOMAIN rooms : Len(rooms[r].players) >= 1)
  /\ [][CleanupInactiveRooms => DOMAIN rooms' = DOMAIN rooms]_vars

\* the cleanup has run over a room older than the timeout whose last other player left
C36_Witness ==
  /\ now > INACTIVE_TIMEOUT
  /\ closed # {}
  /\ \E r \in DOMAIN rooms : now - rooms[r].createdAt > INACTIVE_TIMEOUT /\ Len(rooms[r].players) = 1

C38_RoomsDoNotLeak ==
  (\A s \in Sockets : s \in closed) => (DOMAIN rooms = {} /\ DOMAIN roomCodes = {})

\* the game of room r gets its rankings in this step
RankingsComputed(r) ==
  /\ r \in DOMAIN rooms /\ r \in DOMAIN rooms'
  /\ IsSome(rooms[r].game) /\ IsSome(rooms'[r].game)
  /\ Val(rooms[r].game).status = "playing"
  /\ Val(rooms'[r].game).status = "finished"

\* C39: when checkGameEnd computes the rankings of a game, every player of the game
\* has a finishTime that is not before the game's startTime, and every entry of the
\* rankings has a timeTaken that is defined and not negative.
C39_FinishTimesOfThisRound ==
  [][\A r \in DOMAIN rooms :
       RankingsComputed(r) =>
         LET game == Val(rooms'[r].game)
         IN  /\ \A i \in 1..Len(game.players) :
                  /\ IsSome(heap'[game.players[i]].finishTime)
                  /\ Val(heap'[game.players[i]].finishTime) >= Val(game.startTime)
             /\ \A i \in 1..Len(game.rankings) :
                  /\ IsSome(game.rankings[i].timeTaken)
                  /\ Val(game.rankings[i].timeTaken) >= 0
    ]_vars

\* the second game of a room, started later than its first, has finished
C39_Witness ==
  \E r \in DOMAIN rooms :
    /\ IsSome(rooms[r].game)
    /\ Val(rooms[r].game).status = "finished"
    /\ Val(rooms[r].game).startTime = Some(MaxTime)
    /\ Len(Val(rooms[r].game).rankings) = 2
    /\ \E i \in 1..2 : heap[Val(rooms[r].game).players[i]].status = "won"

\* C40: every player of a room's roster and every player of a room's game has
\* currentRow equal to the number of its guesses.
C40_RowIsGuessCount ==
  \A r \in DOMAIN rooms :
    /\ \A i \in 1..Len(rooms[r].players) :
         Roster(r)[i].currentRow = Len(Roster(r)[i].guesses)
    /\ IsSome(rooms[r].game) =>
         \A i \in 1..Len(Val(rooms[r].game).players) :
           heap[Val(rooms[r].game).players[i]].currentRow
             = Len(heap[Val(rooms[r].game).players[i]].guesses)

\* after a reset the roster holds a player with guesses and the game its copy without
C40_Witness ==
  \E r \in DOMAIN rooms :
    /\ IsSome(rooms[r].game)
    /\ Val(rooms[r].game).status = "waiting"
    /\ \E i \in 1..Len(rooms[r].players) :
         /\ Roster(r)[i].currentRow = 1
         /\ Len(Roster(r)[i].guesses) = 1
    /\ \E i \in 1..Len(Val(rooms[r].game).players) :
         /\ heap[Val(rooms[r].game).players[i]].currentRow = 0
         /\ heap[Val(rooms[r].game).players[i]].guesses = <<>>

====
